---- MODULE Spec2Model ----
(***************************************************************************)
(* The OMI zone-resolution engine of PlanetAI (src/omi_utils.py,           *)
(* src/config.py): the in-memory caches, their loaders, the KML parser,    *)
(* the ray-casting point-in-polygon test, the hierarchical value lookup    *)
(* and the numeric parser; and the price estimate that blends the OMI      *)
(* values with the market listings (src/agent_core.py).                    *)
(*                                                                         *)
(* Representation.                                                         *)
(*  - A Python str is a sequence of one-character strings, so that         *)
(*    upper(), strip(), title(), replace() and count() are computed        *)
(*    character by character.                                              *)
(*  - A Python value is a record tagged by k: "None", "str", "int",        *)
(*    "float" (an exact rational n/d in lowest terms), "nan" (the float    *)
(*    NaN, which is also what pandas stores in a missing cell),            *)
(*    "OMIQuotazione", or "raise" (an exception leaving the function).     *)
(*  - Coordinates are integers counted in units of 1e-12 degree, the       *)
(*    size of the guard term of _point_in_polygon; arithmetic is exact.    *)
(*    On the rings of the model (those of ParseKmlFile, and every ring     *)
(*    with vertices in 0..2) the exact test and the test run on doubles    *)
(*    give the same answer for every point used.  The KML parser of        *)
(*    SpecKml keeps the vertices as the floats it parsed.                  *)
(***************************************************************************)
EXTENDS Integers, Sequences, FiniteSets, TLC

VARIABLES
    fs,                 \* the files of the project directory
    omi_polygons,       \* _omi_polygons
    omi_valori_df,      \* _omi_valori_df
    omi_zone_df,        \* _omi_zone_df
    omi_cache_ready,    \* _omi_cache_ready
    op,                 \* the call that ran last ("init" before any call)
    input,              \* its arguments
    output,             \* what it returned (or raised)
    poly,               \* where its scan of _omi_polygons stopped (0: no polygon)
    io,                 \* the files it read
    threads             \* the threads inside a call: where each one is, its locals

vars == <<fs, omi_polygons, omi_valori_df, omi_zone_df, omi_cache_ready,
          op, input, output, poly, io, threads>>

(***************************************************************************)
(* Python values                                                           *)
(***************************************************************************)
None == [k |-> "None"]

NaN == [k |-> "nan"]

Str(s) == [k |-> "str", s |-> s]

PyInt(v) == [k |-> "int", v |-> v]

PyBool(b) == [k |-> "bool", v |-> b]

Raise(e) == [k |-> "raise", exc |-> e]

Abs(a) == IF a < 0 THEN -a ELSE a

RECURSIVE GCD(_, _)
GCD(a, b) == IF b = 0 THEN a ELSE GCD(b, a % b)

\* the float n/d, in lowest terms with d > 0
Float(n, d) ==
    LET g == GCD(Abs(n), Abs(d))
        s == IF d < 0 THEN -1 ELSE 1
    IN  [k |-> "float", n |-> s * (n \div g), d |-> s * (d \div g)]

FloatLe(a, b) == a.n * b.d <= b.n * a.d

FloatAdd(a, b) == Float(a.n * b.d + b.n * a.d, a.d * b.d)

FloatHalf(a) == Float(a.n, 2 * a.d)

(***************************************************************************)
(* str methods                                                             *)
(***************************************************************************)
LowerLetters ==
    <<"a", "b", "c", "d", "e", "f", "g", "h", "i", "j", "k", "l", "m",
      "n", "o", "p", "q", "r", "s", "t", "u", "v", "w", "x", "y", "z">>

UpperLetters ==
    <<"A", "B", "C", "D", "E", "F", "G", "H", "I", "J", "K", "L", "M",
      "N", "O", "P", "Q", "R", "S", "T", "U", "V", "W", "X", "Y", "Z">>

Digits == <<"0", "1", "2", "3", "4", "5", "6", "7", "8", "9">>

\* the characters of this model's strings
Chars ==
    {LowerLetters[i] : i \in 1..26} \cup {UpperLetters[i] : i \in 1..26}
    \cup {Digits[i] : i \in 1..10}
    \cup {" ", ".", ",", "'", ":", "/", "(", ")", "EN DASH"}

IsLower(c) == \E i \in 1..26 : LowerLetters[i] = c

IsUpper(c) == \E i \in 1..26 : UpperLetters[i] = c

IsDigit(c) == \E i \in 1..10 : Digits[i] = c

DigitVal(c) == (CHOOSE i \in 1..10 : Digits[i] = c) - 1

\* c.upper() and c.lower(), tabulated over Chars
UpperTable ==
    [c \in Chars |->
        IF IsLower(c) THEN UpperLetters[CHOOSE i \in 1..26 : LowerLetters[i] = c]
        ELSE c]

LowerTable ==
    [c \in Chars |->
        IF IsUpper(c) THEN LowerLetters[CHOOSE i \in 1..26 : UpperLetters[i] = c]
        ELSE c]

LetterTable == [c \in Chars |-> IsLower(c) \/ IsUpper(c)]

UpperCh(c) == UpperTable[c]

LowerCh(c) == LowerTable[c]

\* s.upper()
Upper(s) == [i \in 1..Len(s) |-> UpperCh(s[i])]

\* s.title(): a letter that follows a letter is lowered, any other is raised
Title(s) ==
    [i \in 1..Len(s) |->
        IF i > 1 /\ LetterTable[s[i - 1]]
        THEN LowerCh(s[i]) ELSE UpperCh(s[i])]

\* s.strip(chars), for a set of characters
RECURSIVE StripChars(_, _)
StripChars(s, cs) ==
    IF s = <<>> THEN s
    ELSE IF Head(s) \in cs THEN StripChars(Tail(s), cs)
    ELSE IF s[Len(s)] \in cs THEN StripChars(SubSeq(s, 1, Len(s) - 1), cs)
    ELSE s

\* s.strip()
Strip(s) == StripChars(s, {" "})

\* s.count(c), for a character c
Count(s, c) == Cardinality({i \in 1..Len(s) : s[i] = c})

\* s.replace(pat, t), for a non-empty str pat and a str t
RECURSIVE Replace(_, _, _)
Replace(s, pat, t) ==
    IF s = <<>> THEN <<>>
    ELSE IF Len(s) >= Len(pat) /\ SubSeq(s, 1, Len(pat)) = pat
    THEN t \o Replace(SubSeq(s, Len(pat) + 1, Len(s)), pat, t)
    ELSE <<Head(s)>> \o Replace(Tail(s), pat, t)

(***************************************************************************)
(* float(s) on a str over digits, ".", " ", "N", "A" (the characters the   *)
(* numeric cells of this model are made of): a decimal literal, or "nan"   *)
(* in any letter case; anything else raises ValueError.                    *)
(***************************************************************************)
RECURSIVE DigitsValue(_)
DigitsValue(s) ==
    IF s = <<>> THEN 0
    ELSE 10 * DigitsValue(SubSeq(s, 1, Len(s) - 1)) + DigitVal(s[Len(s)])

RECURSIVE Pow10(_)
Pow10(e) == IF e = 0 THEN 1 ELSE 10 * Pow10(e - 1)

PyFloat(s0) ==
    LET s == Strip(s0)
        ds == SelectSeq(s, IsDigit)
        dot == IF Count(s, ".") = 1 THEN CHOOSE i \in 1..Len(s) : s[i] = "." ELSE 0
    IN  IF Upper(s) = <<"N", "A", "N">> THEN NaN
        ELSE IF /\ ds # <<>>
                /\ Count(s, ".") <= 1
                /\ \A i \in 1..Len(s) : IsDigit(s[i]) \/ s[i] = "."
        THEN Float(DigitsValue(ds), Pow10(IF dot = 0 THEN 0 ELSE Len(s) - dot))
        ELSE Raise("ValueError")

\* _safe_float(x)
SafeFloat(x) ==
    IF x.k = "None" THEN None
    ELSE IF x.k = "int" THEN Float(x.v, 1)
    ELSE IF x.k \in {"float", "nan"} THEN x
    ELSE LET s == Strip(x.s)
             t == IF Count(s, ",") = 1 /\ Count(s, ".") > 1
                  THEN Replace(Replace(s, <<".">>, <<>>), <<",">>, <<".">>)
                  ELSE Replace(s, <<",">>, <<".">>)
             f == PyFloat(t)
         IN  IF s = <<>> \/ Upper(s) = <<"N", "A">> THEN None
             ELSE IF f.k = "raise" THEN None ELSE f

(***************************************************************************)
(* pandas: read_csv and the DataFrame                                      *)
(*                                                                         *)
(* A CSV file is [k |-> "csv", tip, rows]: tip says whether the file has   *)
(* a Descr_Tipologia column, rows are records of raw field texts.  A       *)
(* DataFrame is [k |-> "DataFrame", tip, rows] whose cells are Str(..) or  *)
(* NaN.                                                                    *)
(***************************************************************************)
NoFile == [k |-> "nofile"]

\* the field texts read_csv turns into a missing cell (its default na_values
\* that can be written with letters and "/")
NaTexts ==
    { <<>>, <<"N", "A">>, <<"N", "/", "A">>, <<"n", "/", "a">>,
      <<"N", "a", "N">>, <<"n", "a", "n">>, <<"N", "U", "L", "L">>,
      <<"n", "u", "l", "l">>, <<"N", "o", "n", "e">> }

ReadCsvCell(text) == IF text \in NaTexts THEN NaN ELSE Str(text)

\* pd.read_csv(path, sep=";", skiprows=1, dtype=str)
ReadCsv(file) ==
    [k |-> "DataFrame",
     tip |-> file.tip,
     rows |-> [i \in 1..Len(file.rows) |->
                 [c \in DOMAIN file.rows[i] |-> ReadCsvCell(file.rows[i][c])]]]

\* df[col].str.upper().eq(t), on one cell: a missing cell compares unequal
CellUpperEq(cell, t) == cell.k = "str" /\ Upper(cell.s) = t

\* series.apply(_safe_float).dropna().tolist(): None and NaN are dropped
ApplySafeFloatDropna(cells) ==
    LET parsed == [i \in 1..Len(cells) |-> SafeFloat(cells[i])]
        IsNumber(v) == v.k = "float"
    IN  SelectSeq(parsed, IsNumber)

\* taking the first value for the least
PyMin_First(vals) == vals[1]

\* min(vals) and max(vals) of a non-empty list of floats
PyMin(vals) ==
    vals[CHOOSE i \in 1..Len(vals) :
            /\ \A j \in 1..Len(vals) : FloatLe(vals[i], vals[j])
            /\ \A j \in 1..(i - 1) : ~FloatLe(vals[j], vals[i])]

PyMax(vals) ==
    vals[CHOOSE i \in 1..Len(vals) :
            /\ \A j \in 1..Len(vals) : FloatLe(vals[j], vals[i])
            /\ \A j \in 1..(i - 1) : ~FloatLe(vals[i], vals[j])]

(***************************************************************************)
(* _get_valori_for_zona, after its call of _load_omi_csvs: df and dfz are  *)
(* the two cached tables, zona a str, comune_kml and provincia_kml a       *)
(* Str(..) or None.                                                        *)
(***************************************************************************)
ABITAZIONI_CIVILI ==
    <<"A", "B", "I", "T", "A", "Z", "I", "O", "N", "I", " ",
      "C", "I", "V", "I", "L", "I">>

ABITAZIONI_SIGNORILI ==
    <<"A", "B", "I", "T", "A", "Z", "I", "O", "N", "I", " ",
      "S", "I", "G", "N", "O", "R", "I", "L", "I">>

\* the character U+2013
EnDash == "EN DASH"

\* _norm(s)
Norm(s) == IF s.k = "None" THEN <<>> ELSE Upper(Strip(s.s))

\* no filter on Descr_Tipologia
Abitazioni_Unfiltered(df) == df.rows

\* keeping ABITAZIONI CIVILI alone
Abitazioni_CiviliOnly(df) ==
    LET IsAbitazione(r) ==
            /\ r.Descr_Tipologia.k = "str"
            /\ Upper(r.Descr_Tipologia.s) = ABITAZIONI_CIVILI
    IN  IF df.tip THEN SelectSeq(df.rows, IsAbitazione) ELSE df.rows

\* the rows left by the filter on Descr_Tipologia
Abitazioni(df) ==
    LET IsAbitazione(r) ==
            /\ r.Descr_Tipologia.k = "str"
            /\ Upper(r.Descr_Tipologia.s) \in {ABITAZIONI_CIVILI, ABITAZIONI_SIGNORILI}
    IN  IF df.tip THEN SelectSeq(df.rows, IsAbitazione) ELSE df.rows

\* a zone filter that lets every row through
MatchZona_AllRows(rows, zona_up) == rows

\* step 4: Zona alone
MatchZona(rows, zona_up) ==
    LET Mask(r) == CellUpperEq(r.Zona, zona_up)
    IN  SelectSeq(rows, Mask)

\* the filter on Zona alone that the docstring records as the earlier bug
MatchZonaComuneProv_ZonaOnly(rows, zona_up, comune_up, prov_up) ==
    MatchZona(rows, zona_up)

\* step 1: Zona, and Comune and Provincia when they are given
MatchZonaComuneProv(rows, zona_up, comune_up, prov_up) ==
    LET Mask(r) ==
            /\ CellUpperEq(r.Zona, zona_up)
            /\ comune_up # <<>> => CellUpperEq(r.Comune_descrizione, comune_up)
            /\ prov_up # <<>> => CellUpperEq(r.Prov, prov_up)
    IN  SelectSeq(rows, Mask)

\* step 2: Zona + Provincia
MatchZonaProv(rows, zona_up, prov_up) ==
    LET Mask(r) == CellUpperEq(r.Zona, zona_up) /\ CellUpperEq(r.Prov, prov_up)
    IN  SelectSeq(rows, Mask)

\* step 3: Zona + Comune
MatchZonaComune(rows, zona_up, comune_up) ==
    LET Mask(r) ==
            CellUpperEq(r.Zona, zona_up) /\ CellUpperEq(r.Comune_descrizione, comune_up)
    IN  SelectSeq(rows, Mask)

\* steps 2 and 3 exchanged
MatchedRows_ComuneFirst(df, zona_up, comune_up, prov_up) ==
    LET ab == Abitazioni(df)
        rows1 == MatchZonaComuneProv(ab, zona_up, comune_up, prov_up)
        rows2 == IF rows1 = <<>> /\ comune_up # <<>>
                 THEN MatchZonaComune(ab, zona_up, comune_up) ELSE rows1
        rows3 == IF rows2 = <<>> /\ prov_up # <<>>
                 THEN MatchZonaProv(ab, zona_up, prov_up) ELSE rows2
    IN  IF rows3 = <<>> THEN MatchZona(ab, zona_up) ELSE rows3

\* the rows the values are computed from
MatchedRows(df, zona_up, comune_up, prov_up) ==
    LET ab == Abitazioni(df)
        rows1 == MatchZonaComuneProv(ab, zona_up, comune_up, prov_up)
        rows2 == IF rows1 = <<>> /\ prov_up # <<>>
                 THEN MatchZonaProv(ab, zona_up, prov_up) ELSE rows1
        rows3 == IF rows2 = <<>> /\ comune_up # <<>>
                 THEN MatchZonaComune(ab, zona_up, comune_up) ELSE rows2
    IN  IF rows3 = <<>> THEN MatchZona(ab, zona_up) ELSE rows3

\* the text of the description cell: str(cell or ""), stripped of blanks and
\* apostrophes, in title case, with the colons replaced
CleanDescr(cell) ==
    LET raw_descr == IF cell.k = "str" THEN cell.s ELSE <<"n", "a", "n">>
        clean == Title(Strip(StripChars(Strip(raw_descr), {"'"})))
    IN  Replace(Replace(clean, <<" ", ":">>, <<" ", EnDash, " ">>),
                <<":", " ">>, <<" ", EnDash, " ">>)

\* the description looked up through the four steps of the values
ZonaDescr_FourTier(dfz, zona_up, comune_up, prov_up) ==
    LET default == <<"Z", "o", "n", "a", " ", "O", "M", "I", " ">> \o zona_up
        rz1 == MatchZonaComuneProv(dfz.rows, zona_up, comune_up, prov_up)
        rz2 == IF rz1 = <<>> /\ prov_up # <<>>
               THEN MatchZonaProv(dfz.rows, zona_up, prov_up) ELSE rz1
        rz3 == IF rz2 = <<>> /\ comune_up # <<>>
               THEN MatchZonaComune(dfz.rows, zona_up, comune_up) ELSE rz2
        rz == IF rz3 = <<>> THEN MatchZona(dfz.rows, zona_up) ELSE rz3
    IN  IF dfz.k = "None" \/ dfz.rows = <<>> THEN default
        ELSE IF rz = <<>> THEN default
        ELSE CleanDescr(rz[1].Zona_Descr)

\* zona_descr
ZonaDescr(dfz, zona_up, comune_up, prov_up) ==
    LET default == <<"Z", "o", "n", "a", " ", "O", "M", "I", " ">> \o zona_up
        rz1 == MatchZonaComuneProv(dfz.rows, zona_up, comune_up, prov_up)
        rz == IF rz1 = <<>> THEN MatchZona(dfz.rows, zona_up) ELSE rz1
    IN  IF dfz.k = "None" \/ dfz.rows = <<>> THEN default
        ELSE IF rz = <<>> THEN default
        ELSE CleanDescr(rz[1].Zona_Descr)

\* nulling a value only when its own column has no number
MinMedMax_Each(vals_min, vals_max) ==
    [min |-> IF vals_min = <<>> THEN None ELSE PyMin(vals_min),
     med |-> IF vals_min = <<>> \/ vals_max = <<>> THEN None
             ELSE FloatHalf(FloatAdd(PyMin(vals_min), PyMax(vals_max))),
     max |-> IF vals_max = <<>> THEN None ELSE PyMax(vals_max)]

\* val_min, val_med, val_max from the parsed Compr_min and Compr_max
MinMedMax(vals_min, vals_max) ==
    IF vals_min = <<>> \/ vals_max = <<>>
    THEN [min |-> None, med |-> None, max |-> None]
    ELSE [min |-> PyMin(vals_min),
          med |-> FloatHalf(FloatAdd(PyMin(vals_min), PyMax(vals_max))),
          max |-> PyMax(vals_max)]

Valori(rows) ==
    MinMedMax(ApplySafeFloatDropna([i \in 1..Len(rows) |-> rows[i].Compr_min]),
              ApplySafeFloatDropna([i \in 1..Len(rows) |-> rows[i].Compr_max]))

\* the OMIQuotazione built from the matched rows
MakeQuotazione(rows, v, zona_up, zona_descr) ==
    IF rows = <<>> THEN None
    ELSE IF rows[1].Comune_descrizione.k # "str" \/ rows[1].Prov.k # "str"
    THEN Raise("AttributeError")
    ELSE [k |-> "OMIQuotazione",
          comune |-> Title(rows[1].Comune_descrizione.s),
          provincia |-> Upper(rows[1].Prov.s),
          zona_codice |-> zona_up,
          zona_descrizione |-> zona_descr,
          val_min_mq |-> v.min,
          val_med_mq |-> v.med,
          val_max_mq |-> v.max]

Resolve(zona_up, comune_up, prov_up, df, dfz) ==
    LET rows == MatchedRows(df, zona_up, comune_up, prov_up)
    IN  MakeQuotazione(rows, Valori(rows), zona_up,
                    ZonaDescr(dfz, zona_up, comune_up, prov_up))

GetValoriForZona(zona, comune_kml, provincia_kml, df, dfz) ==
    IF df.k = "None" THEN None
    ELSE IF df.rows = <<>> THEN None
    ELSE Resolve(Upper(Strip(zona)), Norm(comune_kml), Norm(provincia_kml), df, dfz)

(***************************************************************************)
(* _point_in_polygon(x, y, poly): the edges are visited in order; the      *)
(* quotient (x2 - x1) * (y - y1) / (y2 - y1 + 1e-12) is evaluated only     *)
(* for an edge with (y1 > y) != (y2 > y), and raises when its divisor is   *)
(* zero.  x < num / den + x1 is decided exactly, by the sign of den.       *)
(***************************************************************************)
\* the guard term 1e-12, in coordinate units
Eps == 1

RECURSIVE PipLoop(_, _, _, _, _)
\* scanning the listed vertices alone, without the edge from the last one back
\* to the first
PipLoop_Open(i, inside, x, y, ring) ==
    IF i >= Len(ring) THEN PyBool(inside)
    ELSE LET x1 == ring[i][1]
             y1 == ring[i][2]
             x2 == ring[i + 1][1]
             y2 == ring[i + 1][2]
             num == (x2 - x1) * (y - y1)
             den == y2 - y1 + Eps
             intersects ==
                 IF den > 0 THEN (x - x1) * den < num ELSE (x - x1) * den > num
         IN  IF (y1 > y) = (y2 > y) THEN PipLoop(i + 1, inside, x, y, ring)
             ELSE IF den = 0 THEN Raise("ZeroDivisionError")
             ELSE PipLoop(i + 1, IF intersects THEN ~inside ELSE inside, x, y, ring)

PipLoop(i, inside, x, y, ring) ==
    IF i > Len(ring) THEN PyBool(inside)
    ELSE LET x1 == ring[i][1]
             y1 == ring[i][2]
             x2 == ring[(i % Len(ring)) + 1][1]
             y2 == ring[(i % Len(ring)) + 1][2]
             num == (x2 - x1) * (y - y1)
             den == y2 - y1 + Eps
             intersects ==
                 IF den > 0 THEN (x - x1) * den < num ELSE (x - x1) * den > num
         IN  IF (y1 > y) = (y2 > y) THEN PipLoop(i + 1, inside, x, y, ring)
             ELSE IF den = 0 THEN Raise("ZeroDivisionError")
             ELSE PipLoop(i + 1, IF intersects THEN ~inside ELSE inside, x, y, ring)

PointInPolygon(x, y, ring) ==
    IF Len(ring) < 3 THEN PyBool(FALSE) ELSE PipLoop(1, FALSE, x, y, ring)

(***************************************************************************)
(* The files.  fs is [valori_csv, zone_csv, kml, zips]: the two tables     *)
(* under Omi/ (a CSV file or NoFile), the paths of the .kml files under    *)
(* Omi/, and the names of the Omi_*.zip archives beside it.  Paths and     *)
(* names are numbers, ordered as sorted() orders the real ones.            *)
(***************************************************************************)
RowPool ==
    << [Zona |-> <<"B", "1">>, Comune_descrizione |-> <<"C", "O", "M", "O">>, Prov |-> <<"C", "O">>,
       Descr_Tipologia |-> <<"A", "b", "i", "t", "a", "z", "i", "o", "n", "i", " ", "c", "i", "v", "i", "l", "i">>,
       Compr_min |-> <<"1", "0", "0", "0">>, Compr_max |-> <<"2", "0", "0", "0">>],
       [Zona |-> <<"B", "1">>, Comune_descrizione |-> <<"C", "O", "M", "O">>, Prov |-> <<"C", "O">>,
       Descr_Tipologia |-> <<"A", "b", "i", "t", "a", "z", "i", "o", "n", "i", " ", "s", "i", "g", "n", "o", "r", "i", "l", "i">>,
       Compr_min |-> <<"1", "2", "0", "0">>, Compr_max |-> <<"2", "4", "0", "0">>],
       [Zona |-> <<"B", "1">>, Comune_descrizione |-> <<"A", "S", "T", "I">>, Prov |-> <<"A", "T">>,
       Descr_Tipologia |-> <<"A", "b", "i", "t", "a", "z", "i", "o", "n", "i", " ", "c", "i", "v", "i", "l", "i">>,
       Compr_min |-> <<"9", "0", "0">>, Compr_max |-> <<"3", "0", "0", "0">>],
       [Zona |-> <<"b", "1">>, Comune_descrizione |-> <<"E", "r", "b", "a">>, Prov |-> <<"c", "o">>,
       Descr_Tipologia |-> <<"A", "B", "I", "T", "A", "Z", "I", "O", "N", "I", " ", "C", "I", "V", "I", "L", "I">>,
       Compr_min |-> <<"8", "5", "0", ",", "5">>, Compr_max |-> <<>>],
       [Zona |-> <<"B", "1">>, Comune_descrizione |-> <<"C", "O", "M", "O">>, Prov |-> <<"C", "O">>,
       Descr_Tipologia |-> <<"N", "e", "g", "o", "z", "i">>,
       Compr_min |-> <<"1", "0", "0">>, Compr_max |-> <<"9", "0", "0", "0">>],
       [Zona |-> <<"B", "1">>, Comune_descrizione |-> <<"N", "O", "L", "A">>, Prov |-> <<"N", "A">>,
       Descr_Tipologia |-> <<"A", "b", "i", "t", "a", "z", "i", "o", "n", "i", " ", "c", "i", "v", "i", "l", "i">>,
       Compr_min |-> <<"7", "0", "0">>, Compr_max |-> <<"2", "6", "0", "0">>],
       [Zona |-> <<"C", "2">>, Comune_descrizione |-> <<"C", "O", "M", "O">>, Prov |-> <<"C", "O">>,
       Descr_Tipologia |-> <<"A", "b", "i", "t", "a", "z", "i", "o", "n", "i", " ", "c", "i", "v", "i", "l", "i">>,
       Compr_min |-> <<"1", "5", "0", "0">>, Compr_max |-> <<"n", ".", "d", ".">>],
       [Zona |-> <<"C", "2">>, Comune_descrizione |-> <<"C", "O", "M", "O">>, Prov |-> <<"C", "O">>,
       Descr_Tipologia |-> <<"A", "b", "i", "t", "a", "z", "i", "o", "n", "i", " ", "s", "i", "g", "n", "o", "r", "i", "l", "i">>,
       Compr_min |-> <<>>, Compr_max |-> <<"1", "0", "0", "0">>] >>

ZoneRows ==
    << [Zona |-> <<"B", "1">>, Comune_descrizione |-> <<"C", "O", "M", "O">>, Prov |-> <<"C", "O">>,
       Zona_Descr |-> <<"'", "C", "E", "N", "T", "R", "O", ":", " ", "l", "a", "g", "o", "'">>],
       [Zona |-> <<"B", "1">>, Comune_descrizione |-> <<"A", "S", "T", "I">>, Prov |-> <<"A", "T">>,
       Zona_Descr |-> <<"p", "e", "r", "i", "f", "e", "r", "i", "a">>] >>

CsvFile(tip, rows) == [k |-> "csv", tip |-> tip, rows |-> rows]

\* QI_20251_VALORI.csv and QI_20251_ZONE.csv as shipped in the archive
ValoriCsv == CsvFile(TRUE, <<RowPool[1], RowPool[2], RowPool[3], RowPool[5], RowPool[7]>>)

ZoneCsv == CsvFile(FALSE, ZoneRows)

Polygon(zona, comune, provincia, ring) ==
    [zona |-> zona, comune |-> comune, provincia |-> provincia, polygon |-> ring]

\* _parse_kml_file(path), by what the file at that path holds: its zones in
\* document order, none when the file cannot be parsed
ParseKmlFile(path) ==
    CASE path = 1 ->
           << Polygon(<<"B", "1">>, <<"C", "O", "M", "O">>, <<"C", "O">>,
                      <<<<0, 0>>, <<2, 0>>, <<2, 2>>, <<0, 2>>>>) >>
      [] path = 2 ->
           << Polygon(<<"B", "1">>, <<"A", "S", "T", "I">>, <<"A", "T">>,
                      <<<<0, 0>>, <<2, 0>>, <<2, 2>>, <<0, 2>>>>),
              Polygon(<<"D", "1">>, <<"A", "S", "T", "I">>, <<"A", "T">>,
                      <<<<2, 1>>, <<2, 2>>, <<4, 2>>>>) >>
      [] path = 3 ->
           << Polygon(<<"C", "2">>, <<"C", "O", "M", "O">>, <<"C", "O">>,
                      <<<<0, 0>>, <<0, 2>>, <<3, 2>>>>) >>
      [] path = 5 ->
           << Polygon(<<"D", "1">>, <<"C", "O", "M", "O">>, <<"C", "O">>,
                      <<<<0, 0>>, <<2, 0>>, <<2, 2>>, <<0, 2>>>>),
              Polygon(<<"B", "1">>, <<"C", "O", "M", "O">>, <<"C", "O">>,
                      <<<<0, 0>>, <<2, 0>>, <<2, 2>>, <<0, 2>>>>) >>
      [] OTHER -> <<>>

ZipNames == {1, 2, 3}

\* Omi_<a>.zip: whether extractall fails on it, and the files it has written
\* under Omi/ by then.  Omi_1.zip cannot be opened; Omi_3.zip has a corrupt
\* member after its first .kml file, which is written before the failure.
Archive(a) ==
    CASE a = 2 ->
           [bad |-> FALSE, valori_csv |-> ValoriCsv, zone_csv |-> ZoneCsv, kml |-> {1, 2}]
      [] a = 3 ->
           [bad |-> TRUE, valori_csv |-> NoFile, zone_csv |-> NoFile, kml |-> {3}]
      [] OTHER ->
           [bad |-> TRUE, valori_csv |-> NoFile, zone_csv |-> NoFile, kml |-> {}]

\* sorted(S), for a set of numbers
RECURSIVE SortedSeq(_)
SortedSeq(S) ==
    IF S = {} THEN <<>>
    ELSE LET m == CHOOSE x \in S : \A y \in S : x <= y
         IN  <<m>> \o SortedSeq(S \ {m})

\* no thread is inside a call: the calls run one after the other
NoThreads == <<>>

RECURSIVE Flatten(_)
Flatten(ss) == IF ss = <<>> THEN <<>> ELSE Head(ss) \o Flatten(Tail(ss))

NoIo == [csv |-> {}, kml |-> {}, zip |-> {}]

\* zip_ref.extractall(OMI_DIR) of each archive in turn; a failure is caught
\* and the next archive is tried, the files already written staying
RECURSIVE ExtractAll(_, _)
ExtractAll(zip_files, f) ==
    IF zip_files = <<>> THEN f
    ELSE LET a == Archive(Head(zip_files))
             g == [f EXCEPT
                     !.valori_csv = IF a.valori_csv # NoFile THEN a.valori_csv ELSE @,
                     !.zone_csv = IF a.zone_csv # NoFile THEN a.zone_csv ELSE @,
                     !.kml = @ \cup a.kml]
         IN  ExtractAll(Tail(zip_files), g)

(***************************************************************************)
(* The loaders, as functions of the module's state                         *)
(*   e = [fs, polygons, valori, zone, ready, io]                           *)
(* where io collects the files read.                                       *)
(***************************************************************************)
\* ensure_omi_unzipped()
EnsureOmiUnzipped(e) ==
    IF e.fs.valori_csv # NoFile THEN e
    ELSE IF e.fs.zips = {} THEN e
    ELSE [e EXCEPT !.fs = ExtractAll(SortedSeq(e.fs.zips), e.fs),
                   !.io.zip = @ \cup e.fs.zips]

\* _load_omi_csvs()
LoadOmiCsvs(e) ==
    LET readValori == e.valori = None /\ e.fs.valori_csv # NoFile
        readZone == e.zone = None /\ e.fs.zone_csv # NoFile
    IN  [e EXCEPT
           !.valori = IF readValori THEN ReadCsv(e.fs.valori_csv) ELSE @,
           !.zone = IF readZone THEN ReadCsv(e.fs.zone_csv) ELSE @,
           !.io.csv = @ \cup (IF readValori THEN {"valori"} ELSE {})
                        \cup (IF readZone THEN {"zone"} ELSE {})]

\* _load_omi_polygons()
LoadOmiPolygons(e) ==
    IF e.polygons # <<>> THEN e
    ELSE LET u == EnsureOmiUnzipped(e)
             kml_files == SortedSeq(u.fs.kml)
         IN  [u EXCEPT
                !.polygons = Flatten([i \in 1..Len(kml_files) |-> ParseKmlFile(kml_files[i])]),
                !.io.kml = @ \cup u.fs.kml]

\* warmup_omi_cache()
WarmupOmiCache(e) ==
    IF e.ready THEN e
    ELSE [LoadOmiPolygons(LoadOmiCsvs(EnsureOmiUnzipped(e))) EXCEPT !.ready = TRUE]

\* the scan of get_quotazione_omi_da_coordinate: the first polygon, from
\* index i on, whose test does not return False, with what the test gave
RECURSIVE Scan(_, _, _, _)
Scan(polygons, i, lat, lon) ==
    IF i > Len(polygons) THEN [at |-> 0, test |-> PyBool(FALSE)]
    ELSE LET t == PointInPolygon(lon, lat, polygons[i].polygon)
         IN  IF t = PyBool(FALSE) THEN Scan(polygons, i + 1, lat, lon)
             ELSE [at |-> i, test |-> t]

(***************************************************************************)
(* The calls                                                               *)
(***************************************************************************)
Cur ==
    [fs |-> fs, polygons |-> omi_polygons, valori |-> omi_valori_df,
     zone |-> omi_zone_df, ready |-> omi_cache_ready, io |-> NoIo]

\* the module's state after a call, and the record of the call
Becomes(e, name, args, ret, at) ==
    /\ fs' = e.fs
    /\ omi_polygons' = e.polygons
    /\ omi_valori_df' = e.valori
    /\ omi_zone_df' = e.zone
    /\ omi_cache_ready' = e.ready
    /\ io' = e.io
    /\ op' = name
    /\ input' = args
    /\ output' = ret
    /\ poly' = at
    /\ threads' = threads

\* going on to the next containing polygon when the lookup returns none
Quotazione_SecondChance(e0, lat, lon) ==
    LET e1 == WarmupOmiCache(e0)
        hit == Scan(e1.polygons, 1, lat, lon)
        e2 == LoadOmiCsvs(e1)
        Values(i) == GetValoriForZona(e1.polygons[i].zona, Str(e1.polygons[i].comune),
                                      Str(e1.polygons[i].provincia), e2.valori, e2.zone)
        good == { i \in 1..Len(e1.polygons) :
                    /\ PointInPolygon(lon, lat, e1.polygons[i].polygon) = PyBool(TRUE)
                    /\ Values(i) # None }
        next == CHOOSE i \in good : \A j \in good : i <= j
    IN  IF hit.at = 0 THEN [e |-> e1, ret |-> None, at |-> 0]
        ELSE IF hit.test.k = "raise" THEN [e |-> e1, ret |-> hit.test, at |-> hit.at]
        ELSE IF good = {} THEN [e |-> e2, ret |-> None, at |-> Len(e1.polygons)]
        ELSE [e |-> e2, ret |-> Values(next), at |-> next]

\* what get_quotazione_omi_da_coordinate(lat, lon) does from state e0:
\* the state it leaves, what it returns, where its scan stopped
Quotazione(e0, lat, lon) ==
    LET e1 == WarmupOmiCache(e0)
        hit == Scan(e1.polygons, 1, lat, lon)
        p == e1.polygons[hit.at]
        e2 == LoadOmiCsvs(e1)
    IN  IF hit.at = 0 THEN [e |-> e1, ret |-> None, at |-> 0]
        ELSE IF hit.test.k = "raise" THEN [e |-> e1, ret |-> hit.test, at |-> hit.at]
        ELSE [e |-> e2,
              ret |-> GetValoriForZona(p.zona, Str(p.comune), Str(p.provincia),
                                       e2.valori, e2.zone),
              at |-> hit.at]

Args(zona, comune_kml, provincia_kml) ==
    [zona |-> zona, comune_kml |-> comune_kml, provincia_kml |-> provincia_kml]

\* writing the filtered rows back into the cached table
ValoriForZona_FilterInPlace(e0, a) ==
    LET e1 == LoadOmiCsvs(e0)
        e2 == IF e1.valori = None THEN e1
              ELSE [e1 EXCEPT !.valori.rows = Abitazioni(e1.valori)]
    IN  [e |-> e2,
         ret |-> GetValoriForZona(a.zona, a.comune_kml, a.provincia_kml,
                                  e2.valori, e2.zone)]

\* what _get_valori_for_zona(zona, comune_kml, provincia_kml) does from e0
ValoriForZona(e0, a) ==
    LET e1 == LoadOmiCsvs(e0)
    IN  [e |-> e1,
         ret |-> GetValoriForZona(a.zona, a.comune_kml, a.provincia_kml,
                                  e1.valori, e1.zone)]

warmup_omi_cache ==
    \E e \in {WarmupOmiCache(Cur)} : Becomes(e, "warmup_omi_cache", None, None, 0)

load_omi_csvs ==
    \E e \in {LoadOmiCsvs(Cur)} : Becomes(e, "_load_omi_csvs", None, None, 0)

load_omi_polygons ==
    \E e \in {LoadOmiPolygons(Cur)} : Becomes(e, "_load_omi_polygons", None, None, 0)

get_quotazione_omi_da_coordinate(lat, lon) ==
    \E q \in {Quotazione(Cur, lat, lon)} :
        Becomes(q.e, "get_quotazione_omi_da_coordinate",
                [lat |-> lat, lon |-> lon], q.ret, q.at)

get_valori_for_zona(a) ==
    \E r \in {ValoriForZona(Cur, a)} :
        Becomes(r.e, "_get_valori_for_zona", a, r.ret, 0)

(***************************************************************************)
(* Spec: the module in a process.  The directory holds any of the files;   *)
(* the caches are empty; then any call, in any order.                      *)
(***************************************************************************)
\* coordinates of the queries: 0..GridMax in both axes
GridMax == 3

Grid == 0..GridMax

MainArgs ==
    { Args(z, c, p) :
        z \in {<<"B", "1">>},
        c \in {None, Str(<<"C", "O", "M", "O">>)},
        p \in {None, Str(<<"C", "O">>)} }

\* the .kml files found under Omi/ at start
KmlSets == {{}, {4}, {3}, {2}, {5}, {1, 2}, {1, 2, 3, 4}}

FsStates ==
    { [valori_csv |-> v, zone_csv |-> z, kml |-> k, zips |-> a] :
        v \in {NoFile, ValoriCsv}, z \in {NoFile, ZoneCsv},
        k \in KmlSets, a \in SUBSET ZipNames }

Fresh ==
    /\ omi_polygons = <<>>
    /\ omi_valori_df = None
    /\ omi_zone_df = None
    /\ omi_cache_ready = FALSE
    /\ op = "init"
    /\ output = None
    /\ poly = 0
    /\ io = NoIo
    /\ threads = NoThreads

Init ==
    /\ fs \in FsStates
    /\ input = None
    /\ Fresh

Next ==
    \/ warmup_omi_cache
    \/ load_omi_csvs
    \/ load_omi_polygons
    \/ \E lat \in Grid, lon \in Grid : get_quotazione_omi_da_coordinate(lat, lon)
    \/ \E a \in MainArgs : get_valori_for_zona(a)

Spec == Init /\ [][Next]_vars

(***************************************************************************)
(* SpecValori: one call of _get_valori_for_zona in a fresh process, for    *)
(* every table of at most MaxRows rows of RowPool, with or without the     *)
(* Descr_Tipologia column, with or without the description table, and      *)
(* every choice of the three arguments.                                    *)
(***************************************************************************)
MaxRows == 2

Tables ==
    {NoFile} \cup
    { CsvFile(tip, rows) :
        tip \in BOOLEAN,
        rows \in UNION {[1..n -> {RowPool[i] : i \in 1..Len(RowPool)}] : n \in 0..MaxRows} }

ValoriArgs ==
    { Args(z, c, p) :
        z \in {<<"b", "1", " ">>, <<"C", "2">>},
        c \in {None, Str(<<"C", "O", "M", "O">>), Str(<<" ", "a", "s", "t", "i">>),
               Str(<<"N", "O", "L", "A">>)},
        p \in {None, Str(<<"C", "O">>), Str(<<"a", "t">>), Str(<<"N", "A">>)} }

InitValori ==
    /\ fs \in { [valori_csv |-> v, zone_csv |-> z, kml |-> {}, zips |-> {}] :
                  v \in Tables, z \in {NoFile, ZoneCsv} }
    /\ input \in ValoriArgs
    /\ Fresh

resolve ==
    /\ op = "init"
    /\ \E r \in {ValoriForZona(Cur, input)} :
          Becomes(r.e, "_get_valori_for_zona", input, r.ret, 0)

NextValori == resolve

SpecValori == InitValori /\ [][NextValori]_vars

(***************************************************************************)
(* SpecFloat: one call of _safe_float, for every str of at most MaxLen     *)
(* characters of FloatAlphabet, the documented samples, and numbers.       *)
(***************************************************************************)
MaxLen == 3

FloatAlphabet == {"1", "5", ".", ",", "N", "A", " "}

FloatSamples ==
    { <<"1", ".", "2", "3", "4", ",", "5", "6">>,
      <<"1", ".", "2", "3", "4", ".", "5", "6", "7", ",", "8">>,
      <<"4", "5", ",", "8">>,
      <<" ", "2", "4", "0", "0", " ">> }

FloatInputs ==
    {Str(s) : s \in FloatSamples \cup UNION {[1..n -> FloatAlphabet] : n \in 0..MaxLen}}
    \cup {None, NaN, PyInt(0), PyInt(1200), Float(229, 5), Float(-3, 2)}

NoFs == [valori_csv |-> NoFile, zone_csv |-> NoFile, kml |-> {}, zips |-> {}]

InitFloat ==
    /\ fs = NoFs
    /\ input \in FloatInputs
    /\ Fresh

safe_float ==
    /\ op = "init"
    /\ op' = "_safe_float"
    /\ output' = SafeFloat(input)
    /\ UNCHANGED <<fs, omi_polygons, omi_valori_df, omi_zone_df, omi_cache_ready,
                   input, poly, io, threads>>

NextFloat == safe_float

SpecFloat == InitFloat /\ [][NextFloat]_vars

(***************************************************************************)
(* SpecPip: one call of _point_in_polygon, for every ring of 2 to MaxRing  *)
(* vertices on the lattice of 3 by 3 points and every test point with      *)
(* coordinates in 0..PipMax.                                               *)
(***************************************************************************)
PipMax == 2

MaxRing == 3

PipPoints == (0..PipMax) \X (0..PipMax)

RingPoints == (0..2) \X (0..2)

InitPip ==
    /\ fs = NoFs
    /\ input \in { [x |-> pt[1], y |-> pt[2], poly |-> ring] :
                     pt \in PipPoints,
                     ring \in UNION {[1..n -> RingPoints] : n \in 2..MaxRing} }
    /\ Fresh

point_in_polygon ==
    /\ op = "init"
    /\ op' = "_point_in_polygon"
    /\ output' = PointInPolygon(input.x, input.y, input.poly)
    /\ UNCHANGED <<fs, omi_polygons, omi_valori_df, omi_zone_df, omi_cache_ready,
                   input, poly, io, threads>>

NextPip == point_in_polygon

SpecPip == InitPip /\ [][NextPip]_vars

(***************************************************************************)
(* stima_prezzo_zona_nuova_costruzione, from the loop over the listings to *)
(* the result: zona_omi is what get_quotazione_omi_da_coordinate returned  *)
(* and annunci what scarica_annunci_zona returned.  A float is the exact   *)
(* rational, so a product like 2800 * 1.4 is 3920 here and the double next *)
(* to it in the program.  The texts of the notes are written without their *)
(* accents.                                                                *)
(***************************************************************************)
MIN_COMPARABLE_NUOVO == 5

SPREAD_NUOVO_MIN == Float(15, 100)

SPREAD_NUOVO_MAX == Float(35, 100)

FATTORE_DEFAULT_SU_OMI == Float(125, 100)

FloatMul(a, b) == Float(a.n * b.n, a.d * b.d)

FloatSub(a, b) == Float(a.n * b.d - b.n * a.d, a.d * b.d)

\* a / b; ZeroDivisionError when b is 0
FloatDiv(a, b) ==
    IF b.n = 0 THEN Raise("ZeroDivisionError") ELSE Float(a.n * b.d, a.d * b.n)

One == Float(1, 1)

\* bool(x) of None, a float or an object
Truthy(x) ==
    CASE x.k = "None" -> FALSE
      [] x.k = "float" -> x.n # 0
      [] OTHER -> TRUE

\* x or y
PyOr(x, y) == IF Truthy(x) THEN x ELSE y

\* s.lower()
Lower(s) == [i \in 1..Len(s) |-> LowerCh(s[i])]

\* sub in s
Contains(s, sub) ==
    \E i \in 0..(Len(s) - Len(sub)) : SubSeq(s, i + 1, i + Len(sub)) = sub

Annuncio(prezzo, mq, stato, anno_costruzione) ==
    [prezzo |-> prezzo, mq |-> mq, stato |-> stato,
     anno_costruzione |-> anno_costruzione]

classifica_annuncio(a) ==
    LET stato == Lower(IF a.stato.k = "str" THEN a.stato.s ELSE <<>>)
    IN  IF \/ Contains(stato, <<"n", "u", "o", "v", "a", " ", "c", "o", "s", "t",
                                "r", "u", "z", "i", "o", "n", "e">>)
           \/ Contains(stato, <<"n", "u", "o", "v", "o">>)
           \/ Contains(stato, <<"n", "u", "o", "v", "o", " ", "(", "d", "a", " ",
                                "p", "r", "e", "z", "z", "o", ")">>)
        THEN "nuovo"
        ELSE IF a.anno_costruzione.k = "int" /\ a.anno_costruzione.v >= 2018
        THEN "nuovo"
        ELSE IF Contains(stato, <<"r", "i", "s", "t", "r", "u", "t", "t", "u", "r",
                                  "a", "r", "e">>)
        THEN "ristrutturare"
        ELSE "usato"

\* sorted(xs), for a list of floats
RECURSIVE Sorted(_)
Sorted(xs) ==
    IF xs = <<>> THEN <<>>
    ELSE LET m == PyMin(xs)
             i == CHOOSE j \in 1..Len(xs) : xs[j] = m
         IN  <<m>> \o Sorted(SubSeq(xs, 1, i - 1) \o SubSeq(xs, i + 1, Len(xs)))

\* statistics.median(xs), for a sorted non-empty list of floats
Median(xs) ==
    LET n == Len(xs)
    IN  IF n % 2 = 1 THEN xs[(n \div 2) + 1]
        ELSE FloatHalf(FloatAdd(xs[n \div 2], xs[(n \div 2) + 1]))

calcola_statistiche(prezzi_mq) ==
    IF prezzi_mq = <<>> THEN None
    ELSE LET prezzi == Sorted(prezzi_mq)
             n == Len(prezzi)
         IN  [k |-> "dict",
              n |-> n,
              mediana |-> Median(prezzi),
              p25 |-> prezzi[((n - 1) \div 4) + 1],
              p75 |-> prezzi[((3 * (n - 1)) \div 4) + 1]]

\* the listings of a group that have a price and a surface, as prices per mq
RECURSIVE PrezziMq(_, _)
PrezziMq(annunci, gruppo) ==
    IF annunci = <<>> THEN <<>>
    ELSE LET a == Head(annunci)
         IN  IF ~Truthy(a.prezzo) \/ ~Truthy(a.mq)
             THEN PrezziMq(Tail(annunci), gruppo)
             ELSE IF classifica_annuncio(a) = gruppo
             THEN <<FloatDiv(a.prezzo, a.mq)>> \o PrezziMq(Tail(annunci), gruppo)
             ELSE PrezziMq(Tail(annunci), gruppo)

NoStima == [prudente |-> None, centrale |-> None, aggressivo |-> None]

\* new listings below the threshold left aside
StimaPortali_ThresholdOnly(stat_nuovo, stat_usato) ==
    IF stat_nuovo # None /\ stat_nuovo.n >= MIN_COMPARABLE_NUOVO
    THEN [stima |-> [prudente |-> stat_nuovo.p25,
                     centrale |-> stat_nuovo.mediana,
                     aggressivo |-> stat_nuovo.p75],
          spread |-> None]
    ELSE IF stat_usato # None
    THEN [stima |-> [prudente |-> FloatMul(stat_usato.p25, Float(115, 100)),
                     centrale |-> FloatMul(stat_usato.mediana, Float(125, 100)),
                     aggressivo |-> FloatMul(stat_usato.p75, Float(135, 100))],
          spread |-> Float(25, 100)]
    ELSE [stima |-> NoStima, spread |-> None]

\* stima_portali and spread; a raise when the division of the medians raises
StimaPortali(stat_nuovo, stat_usato) ==
    IF stat_nuovo # None /\ stat_nuovo.n >= MIN_COMPARABLE_NUOVO
    THEN [stima |-> [prudente |-> stat_nuovo.p25,
                     centrale |-> stat_nuovo.mediana,
                     aggressivo |-> stat_nuovo.p75],
          spread |-> IF stat_usato = None THEN None
                     ELSE IF stat_usato.mediana.n = 0 THEN Raise("ZeroDivisionError")
                     ELSE FloatSub(FloatDiv(stat_nuovo.mediana, stat_usato.mediana), One)]
    ELSE IF stat_nuovo # None /\ stat_nuovo.n > 0
    THEN [stima |-> [prudente |-> stat_nuovo.p25,
                     centrale |-> stat_nuovo.mediana,
                     aggressivo |-> stat_nuovo.p75],
          spread |-> IF stat_usato = None THEN None
                     ELSE IF stat_usato.mediana.n = 0 THEN Raise("ZeroDivisionError")
                     ELSE FloatSub(FloatDiv(stat_nuovo.mediana, stat_usato.mediana), One)]
    ELSE IF stat_usato # None
    THEN LET spread == FloatHalf(FloatAdd(SPREAD_NUOVO_MIN, SPREAD_NUOVO_MAX))
         IN  [stima |-> [prudente |-> FloatMul(stat_usato.p25,
                                               FloatAdd(One, SPREAD_NUOVO_MIN)),
                         centrale |-> FloatMul(stat_usato.mediana,
                                               FloatAdd(One, spread)),
                         aggressivo |-> FloatMul(stat_usato.p75,
                                                 FloatAdd(One, SPREAD_NUOVO_MAX))],
              spread |-> spread]
    ELSE [stima |-> NoStima, spread |-> None]

\* val_min and val_max taken as they are
StimaOmi_NoReplace(zona_omi) ==
    IF zona_omi # None /\ zona_omi.val_med_mq # None /\ zona_omi.val_min_mq # None
    THEN [prudente |-> FloatMul(zona_omi.val_min_mq, Float(12, 10)),
          centrale |-> FloatMul(zona_omi.val_med_mq, FATTORE_DEFAULT_SU_OMI),
          aggressivo |-> FloatMul(zona_omi.val_max_mq, Float(14, 10))]
    ELSE NoStima

\* the factors of the prudent and of the aggressive value exchanged
StimaOmi_FactorsSwapped(zona_omi) ==
    IF zona_omi # None /\ zona_omi.val_med_mq # None
    THEN [prudente |-> FloatMul(PyOr(zona_omi.val_min_mq, zona_omi.val_med_mq),
                                Float(14, 10)),
          centrale |-> FloatMul(zona_omi.val_med_mq, FATTORE_DEFAULT_SU_OMI),
          aggressivo |-> FloatMul(PyOr(zona_omi.val_max_mq, zona_omi.val_med_mq),
                                  Float(12, 10))]
    ELSE NoStima

StimaOmi(zona_omi) ==
    IF zona_omi # None /\ zona_omi.val_med_mq # None
    THEN [prudente |-> FloatMul(PyOr(zona_omi.val_min_mq, zona_omi.val_med_mq),
                                Float(12, 10)),
          centrale |-> FloatMul(zona_omi.val_med_mq, FATTORE_DEFAULT_SU_OMI),
          aggressivo |-> FloatMul(PyOr(zona_omi.val_max_mq, zona_omi.val_med_mq),
                                  Float(14, 10))]
    ELSE NoStima

peso_omi == Float(6, 10)

peso_portali == Float(4, 10)

Pesata_Swapped(omi, portali) ==
    FloatAdd(FloatMul(omi, peso_portali), FloatMul(portali, peso_omi))

Pesata(omi, portali) ==
    FloatAdd(FloatMul(omi, peso_omi), FloatMul(portali, peso_portali))

\* no generic estimate when both sources are missing
Combina_NoFallback(stima_omi, stima_portali) ==
    IF stima_portali.centrale # None /\ stima_omi.centrale # None
    THEN [prudente |-> Pesata(stima_omi.prudente, stima_portali.prudente),
          centrale |-> Pesata(stima_omi.centrale, stima_portali.centrale),
          aggressivo |-> Pesata(stima_omi.aggressivo, stima_portali.aggressivo),
          note_base |-> "Stima combinata: 60% valori OMI + 40% annunci di mercato (Immobiliare.it)."]
    ELSE IF stima_omi.centrale # None
    THEN [prudente |-> stima_omi.prudente,
          centrale |-> stima_omi.centrale,
          aggressivo |-> stima_omi.aggressivo,
          note_base |-> "Stima basata unicamente su valori OMI (nessun dato portali utilizzabile)."]
    ELSE [prudente |-> stima_portali.prudente,
          centrale |-> stima_portali.centrale,
          aggressivo |-> stima_portali.aggressivo,
          note_base |-> "Stima basata unicamente su annunci di mercato (Immobiliare.it), OMI non disponibile."]

Combina_FallbackWithoutOmi(stima_omi, stima_portali) ==
    IF stima_omi.centrale # None
    THEN [prudente |-> stima_omi.prudente,
          centrale |-> stima_omi.centrale,
          aggressivo |-> stima_omi.aggressivo,
          note_base |-> "Stima basata unicamente su valori OMI (nessun dato portali utilizzabile)."]
    ELSE [prudente |-> Float(2500, 1),
          centrale |-> Float(3000, 1),
          aggressivo |-> Float(3500, 1),
          note_base |-> "Nessun dato OMI ne portali: stima di fallback generica."]

\* prudente, centrale, aggressivo and note_base
Combina(stima_omi, stima_portali) ==
    LET portali_ok == stima_portali.centrale # None
        omi_ok == stima_omi.centrale # None
    IN  IF portali_ok /\ omi_ok
        THEN [prudente |-> Pesata(stima_omi.prudente, stima_portali.prudente),
              centrale |-> Pesata(stima_omi.centrale, stima_portali.centrale),
              aggressivo |-> Pesata(stima_omi.aggressivo, stima_portali.aggressivo),
              note_base |-> "Stima combinata: 60% valori OMI + 40% annunci di mercato (Immobiliare.it)."]
        ELSE IF omi_ok
        THEN [prudente |-> stima_omi.prudente,
              centrale |-> stima_omi.centrale,
              aggressivo |-> stima_omi.aggressivo,
              note_base |-> "Stima basata unicamente su valori OMI (nessun dato portali utilizzabile)."]
        ELSE IF portali_ok
        THEN [prudente |-> stima_portali.prudente,
              centrale |-> stima_portali.centrale,
              aggressivo |-> stima_portali.aggressivo,
              note_base |-> "Stima basata unicamente su annunci di mercato (Immobiliare.it), OMI non disponibile."]
        ELSE [prudente |-> Float(2500, 1),
              centrale |-> Float(3000, 1),
              aggressivo |-> Float(3500, 1),
              note_base |-> "Nessun dato OMI ne portali: stima di fallback generica."]

\* a note without a number, and a note that quotes a sample count
Nota(text) == [text |-> text]

NotaN(before, n, after) == [text |-> before, n |-> n, after |-> after]

Note_BaseOnly(note_base, stat_nuovo, stat_usato, zona_omi) ==
    <<Nota(note_base)>>

Note(note_base, stat_nuovo, stat_usato, zona_omi) ==
    <<Nota(note_base)>>
    \o (IF stat_nuovo # None
        THEN <<NotaN("Annunci 'nuovo' considerati: n=", stat_nuovo.n,
                     " (Immobiliare.it, inclusi eventuali 'nuovo (da prezzo)').")>>
        ELSE <<Nota("Nessun annuncio 'nuovo' utilizzabile nemmeno dopo l'analisi dei prezzi.")>>)
    \o (IF stat_usato # None
        THEN <<NotaN("Annunci 'usato' considerati: n=", stat_usato.n,
                     " (Immobiliare.it).")>>
        ELSE <<Nota("Nessun annuncio 'usato' utilizzabile (Immobiliare.it).")>>)
    \o (IF zona_omi = None
        THEN <<Nota("Zona OMI non determinata (verificare copertura KML/CSV).")>>
        ELSE <<>>)

EmptyDict == [k |-> "dict"]

ZonaOmiDict(zona_omi) ==
    IF zona_omi = None THEN None
    ELSE [k |-> "dict",
          codice |-> zona_omi.zona_codice,
          descrizione |-> zona_omi.zona_descrizione,
          comune |-> zona_omi.comune,
          val_min |-> zona_omi.val_min_mq,
          val_med |-> zona_omi.val_med_mq,
          val_max |-> zona_omi.val_max_mq]

stima_prezzo_zona_nuova_costruzione(zona_omi, annunci) ==
    LET stat_nuovo == calcola_statistiche(PrezziMq(annunci, "nuovo"))
        stat_usato == calcola_statistiche(PrezziMq(annunci, "usato"))
        portali == StimaPortali(stat_nuovo, stat_usato)
        stima_omi == StimaOmi(zona_omi)
        c == Combina(stima_omi, portali.stima)
    IN  IF portali.spread.k = "raise" THEN portali.spread
        ELSE [k |-> "dict",
              zona_omi |-> ZonaOmiDict(zona_omi),
              usato |-> IF stat_usato = None THEN EmptyDict ELSE stat_usato,
              nuovo |-> IF stat_nuovo = None THEN EmptyDict ELSE stat_nuovo,
              spread_nuovo_vs_usato |-> portali.spread,
              stima_nuova_costruzione |-> [prudente |-> c.prudente,
                                           centrale |-> c.centrale,
                                           aggressivo |-> c.aggressivo],
              note |-> Note(c.note_base, stat_nuovo, stat_usato, zona_omi)]

(***************************************************************************)
(* SpecStima: one run of the estimate, for every list of at most           *)
(* MaxAnnunci listings of AnnunciPool, the lists of AnnunciSamples, and    *)
(* every zona_omi of ZoneOmi.                                              *)
(***************************************************************************)
MaxAnnunci == 5

Euro(v) == Float(v, 1)

Mq(v) == Float(v, 1)

Usato == Str(<<"u", "s", "a", "t", "o">>)

NuovaCostruzione ==
    Str(<<"n", "u", "o", "v", "a", " ", "c", "o", "s", "t", "r", "u", "z", "i",
          "o", "n", "e">>)

DaRistrutturare ==
    Str(<<"d", "a", " ", "r", "i", "s", "t", "r", "u", "t", "t", "u", "r", "a",
          "r", "e">>)

\* what _scrape_immobiliare_it makes of a page: a price and a surface that
\* are whole and not negative, one of its three stato texts, no year
AnnunciPool ==
    << Annuncio(Euro(250000), Mq(100), NuovaCostruzione, None),
       Annuncio(Euro(350000), Mq(100), NuovaCostruzione, None),
       Annuncio(Euro(320000), Mq(100), Usato, None),
       Annuncio(Euro(90000), Mq(100), DaRistrutturare, None) >>

\* lists with a listing that has no surface or no price
AnnunciSamples ==
    { << Annuncio(Euro(180000), Mq(0), Usato, None) >>,
      << Annuncio(Euro(0), Mq(80), NuovaCostruzione, None), AnnunciPool[1] >>,
      << AnnunciPool[3], Annuncio(Euro(180000), Mq(0), Usato, None),
         AnnunciPool[4], Annuncio(Euro(0), Mq(80), NuovaCostruzione, None) >> }

ZonaOmi(val_min, val_med, val_max) ==
    [k |-> "OMIQuotazione",
     comune |-> <<"C", "o", "m", "o">>,
     provincia |-> <<"C", "O">>,
     zona_codice |-> <<"B", "1">>,
     zona_descrizione |-> None,
     val_min_mq |-> val_min,
     val_med_mq |-> val_med,
     val_max_mq |-> val_max]

\* what get_quotazione_omi_da_coordinate returns: None, a zone without
\* values, or a zone whose median is half the sum of its minimum and maximum
ZoneOmi ==
    { None,
      ZonaOmi(None, None, None),
      ZonaOmi(Float(2000, 1), Float(2400, 1), Float(2800, 1)),
      ZonaOmi(Float(0, 1), Float(1200, 1), Float(2400, 1)) }

InitStima ==
    /\ fs = NoFs
    /\ input \in { [zona_omi |-> z, annunci |-> a] :
                     z \in ZoneOmi,
                     a \in AnnunciSamples \cup
                           UNION {[1..n -> {AnnunciPool[i] : i \in 1..Len(AnnunciPool)}] :
                                    n \in 0..MaxAnnunci} }
    /\ Fresh

stima ==
    /\ op = "init"
    /\ op' = "stima_prezzo_zona_nuova_costruzione"
    /\ output' = stima_prezzo_zona_nuova_costruzione(input.zona_omi, input.annunci)
    /\ UNCHANGED <<fs, omi_polygons, omi_valori_df, omi_zone_df, omi_cache_ready,
                   input, poly, io, threads>>

NextStima == stima

SpecStima == InitStima /\ [][NextStima]_vars

(***************************************************************************)
(* _parse_kml_file, by the elements of the document.  A document is        *)
(* whether ET.parse accepts the file, the text of Document/name, and its   *)
(* Placemark elements in document order; a Placemark is its                *)
(* ExtendedData/Data elements (name attribute and text of value), the text *)
(* of its name, and the text of the outer-boundary coordinates of each of  *)
(* its Polygon elements.  A text is a Str(..), or None where the element   *)
(* is missing or empty.  The white space of the texts is the blank.        *)
(***************************************************************************)
KmlDoc(parsed, name, placemarks) ==
    [parsed |-> parsed, name |-> name, placemarks |-> placemarks]

Placemark(data, name, polygons) ==
    [data |-> data, name |-> name, polygons |-> polygons]

Data(name, value) == [name |-> name, value |-> value]

\* bool(text) of an element text
HasText(t) == t.k = "str" /\ t.s # <<>>

\* the end of the run of blanks that starts at i (i - 1 when s[i] is no blank)
RECURSIVE RunEnd(_, _)
RunEnd(s, i) ==
    IF i <= Len(s) /\ s[i] = " " THEN RunEnd(s, i + 1) ELSE i - 1

\* re.match(r"^(.*?)\s+\((..)\)", txt): the two groups, or None
DocNameMatch(txt) ==
    LET ok(i) == /\ RunEnd(txt, i + 1) > i
                 /\ RunEnd(txt, i + 1) + 4 <= Len(txt)
                 /\ txt[RunEnd(txt, i + 1) + 1] = "("
                 /\ txt[RunEnd(txt, i + 1) + 4] = ")"
        is == {i \in 0..Len(txt) : ok(i)}
    IN  IF is = {} THEN None
        ELSE LET i == CHOOSE x \in is : \A y \in is : x <= y
                 j == RunEnd(txt, i + 1)
             IN  [k |-> "match", g1 |-> SubSeq(txt, 1, i), g2 |-> SubSeq(txt, j + 2, j + 3)]

\* comune and prov of the document
DocLabel(name) ==
    LET m == DocNameMatch(Strip(name.s))
    IN  IF HasText(name) /\ m # None
        THEN [comune |-> Upper(Strip(m.g1)), prov |-> Upper(Strip(m.g2))]
        ELSE [comune |-> <<>>, prov |-> <<>>]

\* the zone code of the first CODZONA element that has a value text
RECURSIVE ZonaFromData(_)
ZonaFromData(data) ==
    IF data = <<>> THEN None
    ELSE IF Head(data).name = "CODZONA" /\ HasText(Head(data).value)
    THEN Str(Upper(Strip(Head(data).value.s)))
    ELSE ZonaFromData(Tail(data))

IsAlnum(c) == IsUpper(c) \/ IsDigit(c)

\* the end of the run of [A-Z0-9] that starts at i
RECURSIVE AlnumEnd(_, _)
AlnumEnd(s, i) ==
    IF i <= Len(s) /\ IsAlnum(s[i]) THEN AlnumEnd(s, i + 1) ELSE i - 1

\* re.search(r"ZONA\s+OMI\s+([A-Z0-9]+)", s): group 1, or None
ZonaOmiSearch(s) ==
    LET a(p) == RunEnd(s, p + 4)
        b(p) == RunEnd(s, a(p) + 4)
        ok(p) == /\ p + 3 <= Len(s)
                 /\ SubSeq(s, p, p + 3) = <<"Z", "O", "N", "A">>
                 /\ a(p) >= p + 4
                 /\ a(p) + 3 <= Len(s)
                 /\ SubSeq(s, a(p) + 1, a(p) + 3) = <<"O", "M", "I">>
                 /\ b(p) >= a(p) + 4
                 /\ AlnumEnd(s, b(p) + 1) > b(p)
        ps == {p \in 1..Len(s) : ok(p)}
    IN  IF ps = {} THEN None
        ELSE LET p == CHOOSE x \in ps : \A y \in ps : x <= y
             IN  Str(SubSeq(s, b(p) + 1, AlnumEnd(s, b(p) + 1)))

\* zona_code of a Placemark: a Str(..), or None
ZonaCode(pm) ==
    LET from_data == ZonaFromData(pm.data)
    IN  IF HasText(from_data) THEN from_data
        ELSE IF HasText(pm.name) THEN ZonaOmiSearch(Upper(pm.name.s))
        ELSE None

\* s.split(c), for a character c
RECURSIVE SplitOn(_, _)
SplitOn(s, c) ==
    IF \A i \in 1..Len(s) : s[i] # c THEN <<s>>
    ELSE LET i == CHOOSE x \in 1..Len(s) : s[x] = c /\ \A y \in 1..(x - 1) : s[y] # c
         IN  <<SubSeq(s, 1, i - 1)>> \o SplitOn(SubSeq(s, i + 1, Len(s)), c)

\* re.split(r"\s+", s)
RECURSIVE ReSplit(_)
ReSplit(s) ==
    IF \A i \in 1..Len(s) : s[i] # " " THEN <<s>>
    ELSE LET i == CHOOSE x \in 1..Len(s) : s[x] = " " /\ \A y \in 1..(x - 1) : s[y] # " "
         IN  <<SubSeq(s, 1, i - 1)>> \o ReSplit(SubSeq(s, RunEnd(s, i) + 1, Len(s)))

\* the vertex of a part of the coordinates text: <<(lon, lat)>>, or <<>> when
\* the part is skipped
Vertex(part) ==
    LET bits == SplitOn(part, ",")
    IN  IF part = <<>> \/ Len(bits) < 2 THEN <<>>
        ELSE IF PyFloat(bits[1]).k = "raise" \/ PyFloat(bits[2]).k = "raise" THEN <<>>
        ELSE << <<PyFloat(bits[1]), PyFloat(bits[2])>> >>

RECURSIVE Vertices(_)
Vertices(parts) ==
    IF parts = <<>> THEN <<>> ELSE Vertex(Head(parts)) \o Vertices(Tail(parts))

\* ring of a coordinates text
Ring(coords) == Vertices(ReSplit(Strip(coords.s)))

\* the polygons of a Placemark whose zone code is zona
RECURSIVE PolygonsOf(_, _, _)
PolygonsOf(polys, zona, label) ==
    IF polys = <<>> THEN <<>>
    ELSE IF HasText(Head(polys)) /\ Len(Ring(Head(polys))) >= 3
    THEN <<Polygon(zona, label.comune, label.prov, Ring(Head(polys)))>>
         \o PolygonsOf(Tail(polys), zona, label)
    ELSE PolygonsOf(Tail(polys), zona, label)

RECURSIVE PlacemarksOf(_, _)
PlacemarksOf(pms, label) ==
    IF pms = <<>> THEN <<>>
    ELSE IF HasText(ZonaCode(Head(pms)))
    THEN PolygonsOf(Head(pms).polygons, ZonaCode(Head(pms)).s, label)
         \o PlacemarksOf(Tail(pms), label)
    ELSE PlacemarksOf(Tail(pms), label)

parse_kml_file(doc) ==
    IF ~doc.parsed THEN <<>>
    ELSE PlacemarksOf(doc.placemarks, DocLabel(doc.name))

(***************************************************************************)
(* SpecKml: one call of _parse_kml_file, for every document of one         *)
(* Placemark of PlacemarkPool with one Polygon whose coordinates are at    *)
(* most MaxParts parts of PartPool, and the documents of KmlSamples.       *)
(***************************************************************************)
MaxParts == 4

\* "0,0", "2,1.5,9", "x,1", "7", "nan,1"
PartPool ==
    << <<"0", ",", "0">>,
       <<"2", ",", "1", ".", "5", ",", "9">>,
       <<"x", ",", "1">>,
       <<"7">>,
       <<"n", "a", "n", ",", "1">> >>

\* " ".join(parts)
RECURSIVE Join(_)
Join(parts) ==
    IF parts = <<>> THEN <<>>
    ELSE IF Len(parts) = 1 THEN parts[1]
    ELSE parts[1] \o <<" ">> \o Join(Tail(parts))

ZonaOmiC2 == Str(<<"Z", "o", "n", "a", " ", "O", "M", "I", " ", "c", "2">>)

Centro == Str(<<"C", "e", "n", "t", "r", "o">>)

\* Placemarks without polygons: CODZONA " b1 " and a name; no Data and a
\* name with a code; no Data and a name without a code; a blank CODZONA and
\* no name; a blank CODZONA and a name with a code; another Data, a CODZONA
\* without value, and CODZONA "d1"
PlacemarkPool ==
    << Placemark(<<Data("CODZONA", Str(<<" ", "b", "1", " ">>))>>, ZonaOmiC2, <<>>),
       Placemark(<<>>, ZonaOmiC2, <<>>),
       Placemark(<<>>, Centro, <<>>),
       Placemark(<<Data("CODZONA", Str(<<" ", " ">>))>>, None, <<>>),
       Placemark(<<Data("CODZONA", Str(<<" ">>))>>, ZonaOmiC2, <<>>),
       Placemark(<<Data("LINKZONA", Str(<<"x">>)), Data("CODZONA", None),
                   Data("CODZONA", Str(<<"d", "1">>))>>, None, <<>>) >>

WithPolygons(pm, polygons) == [pm EXCEPT !.polygons = polygons]

ComoCo == Str(<<"C", "O", "M", "O", " ", "(", "C", "O", ")", " ", "2", "0", "2", "5">>)

Square == Str(<<"0", ",", "0", " ", "2", ",", "0", " ", "2", ",", "2", " ", "0", ",", "2">>)

\* a file that is not XML; documents with other names, with several
\* Placemarks, with several Polygons, and with coordinates that are missing,
\* blank, or spaced out
KmlSamples ==
    { KmlDoc(FALSE, None, <<>>),
      KmlDoc(TRUE, None, <<WithPolygons(PlacemarkPool[1], <<Square>>)>>),
      KmlDoc(TRUE, Str(<<"c", "o", "m", "o">>),
             <<WithPolygons(PlacemarkPool[2], <<Square>>)>>),
      KmlDoc(TRUE, Str(<<" ", "a", " ", "(", "b", ")", " ", " ", "(", "c", "d", ")">>),
             <<WithPolygons(PlacemarkPool[6], <<Square, Square>>)>>),
      KmlDoc(TRUE, ComoCo,
             <<WithPolygons(PlacemarkPool[1], <<Square>>),
               WithPolygons(PlacemarkPool[3], <<Square>>),
               WithPolygons(PlacemarkPool[2], <<None, Square>>)>>),
      KmlDoc(TRUE, ComoCo,
             <<WithPolygons(PlacemarkPool[1],
                            <<Str(<<" ", " ">>), Str(<<>>),
                              Str(<<" ", "0", ",", "0", " ", " ", "2", ",", "0", " ",
                                    "1", ",", " ", ",", "1", " ", "2", ",", "2", " ">>)>>)>>) }

KmlDocs ==
    KmlSamples \cup
    { KmlDoc(TRUE, ComoCo, <<WithPolygons(PlacemarkPool[p], <<Str(Join(parts))>>)>>) :
        p \in 1..Len(PlacemarkPool),
        parts \in UNION {[1..n -> {PartPool[i] : i \in 1..Len(PartPool)}] :
                           n \in 1..MaxParts} }

InitKml ==
    /\ fs = NoFs
    /\ input \in KmlDocs
    /\ Fresh

parse_kml ==
    /\ op = "init"
    /\ op' = "_parse_kml_file"
    /\ output' = parse_kml_file(input)
    /\ UNCHANGED <<fs, omi_polygons, omi_valori_df, omi_zone_df, omi_cache_ready,
                   input, poly, io, threads>>

NextKml == parse_kml

SpecKml == InitKml /\ [][NextKml]_vars

(***************************************************************************)
(* SpecThreads: NThreads threads call warmup_omi_cache or                  *)
(* get_quotazione_omi_da_coordinate on a fresh module, and run             *)
(* interleaved.  No lock is taken anywhere in the code, so a thread can be *)
(* preempted between any two reads or writes of a module global or of the  *)
(* directory; a step here is one such read or write, with the local work   *)
(* that follows it.  threads[t] is [call, pc, site, zips, polygons,        *)
(* scanned]: the call of thread t, the statement it is at, the caller of   *)
(* ensure_omi_unzipped it is in (1 warmup_omi_cache, 2                     *)
(* _load_omi_polygons), the archives it has still to extract, its local    *)
(* list polygons, and the list its scan iterates over (in a sequence,      *)
(* empty before the scan).  An archive is                                  *)
(* extracted in one step.  input keeps the directory of the start.         *)
(***************************************************************************)
NThreads == 2

Threads == 1..NThreads

ThreadCalls == {"warmup_omi_cache", "get_quotazione_omi_da_coordinate"}

Start(call) ==
    [call |-> call, pc |-> "warmup_omi_cache", site |-> 0, zips |-> <<>>,
     polygons |-> <<>>, scanned |-> <<>>]

InitThreads ==
    /\ fs \in FsStates
    /\ input = [fs |-> fs]
    /\ omi_polygons = <<>>
    /\ omi_valori_df = None
    /\ omi_zone_df = None
    /\ omi_cache_ready = FALSE
    /\ op = "init"
    /\ output = None
    /\ poly = 0
    /\ io = NoIo
    /\ threads \in [Threads -> {Start(c) : c \in ThreadCalls}]

At(t, pc) == threads[t].pc = pc

Goes(t, rec) == threads' = [threads EXCEPT ![t] = rec]

\* where a thread continues when warmup_omi_cache returns
AfterWarmup(t) ==
    IF threads[t].call = "get_quotazione_omi_da_coordinate" THEN "scan" ELSE "done"

\* where a thread continues when ensure_omi_unzipped returns
AfterUnzip(site) == IF site = 1 THEN "_load_omi_csvs" ELSE "glob"

\* warmup_omi_cache: if _omi_cache_ready: return
thread_warmup_omi_cache(t) ==
    /\ At(t, "warmup_omi_cache")
    /\ Goes(t, IF omi_cache_ready
               THEN [threads[t] EXCEPT !.pc = AfterWarmup(t)]
               ELSE [threads[t] EXCEPT !.pc = "ensure_omi_unzipped", !.site = 1])
    /\ UNCHANGED <<fs, omi_polygons, omi_valori_df, omi_zone_df, omi_cache_ready,
                   op, input, output, poly, io>>

\* ensure_omi_unzipped: the test of the main CSV and the list of the archives
thread_ensure_omi_unzipped(t) ==
    /\ At(t, "ensure_omi_unzipped")
    /\ Goes(t, IF fs.valori_csv # NoFile \/ fs.zips = {}
               THEN [threads[t] EXCEPT !.pc = AfterUnzip(threads[t].site)]
               ELSE [threads[t] EXCEPT !.pc = "extractall", !.zips = SortedSeq(fs.zips)])
    /\ UNCHANGED <<fs, omi_polygons, omi_valori_df, omi_zone_df, omi_cache_ready,
                   op, input, output, poly, io>>

\* ensure_omi_unzipped: zip_ref.extractall(OMI_DIR) of the next archive
thread_extractall(t) ==
    /\ At(t, "extractall")
    /\ \E zip_files \in {threads[t].zips} :
          /\ fs' = ExtractAll(<<Head(zip_files)>>, fs)
          /\ io' = [io EXCEPT !.zip = @ \cup {Head(zip_files)}]
          /\ Goes(t, [threads[t] EXCEPT
                        !.zips = Tail(zip_files),
                        !.pc = IF Tail(zip_files) = <<>>
                               THEN AfterUnzip(threads[t].site) ELSE @])
    /\ UNCHANGED <<omi_polygons, omi_valori_df, omi_zone_df, omi_cache_ready,
                   op, input, output, poly>>

\* _load_omi_csvs()
thread_load_omi_csvs(t) ==
    /\ At(t, "_load_omi_csvs")
    /\ \E e \in {LoadOmiCsvs(Cur)} :
          /\ omi_valori_df' = e.valori
          /\ omi_zone_df' = e.zone
          /\ io' = [io EXCEPT !.csv = @ \cup e.io.csv]
    /\ Goes(t, [threads[t] EXCEPT !.pc = "_load_omi_polygons"])
    /\ UNCHANGED <<fs, omi_polygons, omi_cache_ready, op, input, output, poly>>

\* _load_omi_polygons: if _omi_polygons: return
thread_load_omi_polygons(t) ==
    /\ At(t, "_load_omi_polygons")
    /\ Goes(t, IF omi_polygons # <<>>
               THEN [threads[t] EXCEPT !.pc = "ready"]
               ELSE [threads[t] EXCEPT !.pc = "ensure_omi_unzipped", !.site = 2])
    /\ UNCHANGED <<fs, omi_polygons, omi_valori_df, omi_zone_df, omi_cache_ready,
                   op, input, output, poly, io>>

\* _load_omi_polygons: the files found by glob, parsed into the local list
thread_glob(t) ==
    /\ At(t, "glob")
    /\ \E kml_files \in {SortedSeq(fs.kml)} :
          Goes(t, [threads[t] EXCEPT
                     !.pc = "assign",
                     !.polygons = Flatten([i \in 1..Len(kml_files) |->
                                              ParseKmlFile(kml_files[i])])])
    /\ io' = [io EXCEPT !.kml = @ \cup fs.kml]
    /\ UNCHANGED <<fs, omi_polygons, omi_valori_df, omi_zone_df, omi_cache_ready,
                   op, input, output, poly>>

\* _load_omi_polygons: _omi_polygons = polygons
thread_assign(t) ==
    /\ At(t, "assign")
    /\ omi_polygons' = threads[t].polygons
    /\ Goes(t, [threads[t] EXCEPT !.pc = "ready"])
    /\ UNCHANGED <<fs, omi_valori_df, omi_zone_df, omi_cache_ready,
                   op, input, output, poly, io>>

\* warmup_omi_cache: _omi_cache_ready = True
thread_ready(t) ==
    /\ At(t, "ready")
    /\ omi_cache_ready' = TRUE
    /\ Goes(t, [threads[t] EXCEPT !.pc = AfterWarmup(t)])
    /\ UNCHANGED <<fs, omi_polygons, omi_valori_df, omi_zone_df,
                   op, input, output, poly, io>>

\* get_quotazione_omi_da_coordinate: for poly in _omi_polygons
thread_scan(t) ==
    /\ At(t, "scan")
    /\ Goes(t, [threads[t] EXCEPT !.pc = "done", !.scanned = <<omi_polygons>>])
    /\ UNCHANGED <<fs, omi_polygons, omi_valori_df, omi_zone_df, omi_cache_ready,
                   op, input, output, poly, io>>

NextThreads ==
    \E t \in Threads :
        \/ thread_warmup_omi_cache(t)
        \/ thread_ensure_omi_unzipped(t)
        \/ thread_extractall(t)
        \/ thread_load_omi_csvs(t)
        \/ thread_load_omi_polygons(t)
        \/ thread_glob(t)
        \/ thread_assign(t)
        \/ thread_ready(t)
        \/ thread_scan(t)

SpecThreads == InitThreads /\ [][NextThreads]_vars

(***************************************************************************)
(* Properties of _get_valori_for_zona (SpecValori).  They are stated over  *)
(* the table the call has loaded and the arguments it was given, with      *)
(* sets of row numbers.                                                    *)
(***************************************************************************)
Resolved == op = "_get_valori_for_zona"

TheZona == Upper(Strip(input.zona))

TheComune == IF input.comune_kml = None THEN <<>> ELSE Upper(Strip(input.comune_kml.s))

TheProv == IF input.provincia_kml = None THEN <<>> ELSE Upper(Strip(input.provincia_kml.s))

TableRows == IF omi_valori_df = None THEN <<>> ELSE omi_valori_df.rows

IsText(cell, t) == cell.k = "str" /\ Upper(cell.s) = t

\* the rows of residential housing (all of them, in a table without the column)
Residential ==
    { i \in 1..Len(TableRows) :
        \/ ~omi_valori_df.tip
        \/ \E t \in {ABITAZIONI_CIVILI, ABITAZIONI_SIGNORILI} :
              IsText(TableRows[i].Descr_Tipologia, t) }

\* the residential rows of the zone asked for
SameZona == {i \in Residential : \A z \in {TheZona} : IsText(TableRows[i].Zona, z)}

\* those of rows S in municipality c, in province p
InComune(S, c) == {i \in S : IsText(TableRows[i].Comune_descrizione, c)}

InProv(S, p) == {i \in S : IsText(TableRows[i].Prov, p)}

\* the tiers in the documented order, for the rows S of the zone and the hints
\* c and p; a tier whose hint is absent is not tried
TiersOf(S, c, p) ==
    << (IF c = <<>> THEN S ELSE InComune(S, c)) \cap (IF p = <<>> THEN S ELSE InProv(S, p)),
       IF p = <<>> THEN {} ELSE InProv(S, p),
       IF c = <<>> THEN {} ELSE InComune(S, c),
       S >>

Tiers == CHOOSE t \in {TiersOf(S, TheComune, TheProv) : S \in {SameZona}} : TRUE

FirstOf(t) ==
    IF \A n \in 1..4 : t[n] = {} THEN {}
    ELSE t[CHOOSE n \in 1..4 : t[n] # {} /\ \A u \in 1..(n - 1) : t[u] = {}]

FirstNonEmpty == CHOOSE S \in {FirstOf(t) : t \in {Tiers}} : TRUE

First(S) == CHOOSE i \in S : \A j \in S : i <= j

\* the values of column col that _safe_float parses, in the rows S
Parsed(S, col) ==
    {v \in {SafeFloat(TableRows[i][col]) : i \in S} : v.k = "float"}

Least(V) == CHOOSE v \in V : \A w \in V : FloatLe(v, w)

Greatest(V) == CHOOSE v \in V : \A w \in V : FloatLe(w, v)

\* val_min and val_max are the extremes of the parsed values of the rows S,
\* and null when either column has none
ValuesFrom(S) ==
    \A lo \in {Parsed(S, "Compr_min")}, hi \in {Parsed(S, "Compr_max")} :
        /\ output.val_min_mq = IF lo = {} \/ hi = {} THEN None ELSE Least(lo)
        /\ output.val_max_mq = IF lo = {} \/ hi = {} THEN None ELSE Greatest(hi)

\* the municipality and province shown are those of the first row of S
ShownFrom(S) ==
    /\ output.comune = Title(TableRows[First(S)].Comune_descrizione.s)
    /\ output.provincia = Upper(TableRows[First(S)].Prov.s)

\* C1 - hierarchical match priority: when municipality and province are both
\* given and some residential row has the zone, the municipality and the
\* province, the values and the names returned come from those rows alone.
C1_HierarchicalMatchPriority ==
    (Resolved /\ TheComune # <<>> /\ TheProv # <<>>)
    => \A S \in {InComune(InProv(SameZona, TheProv), TheComune)} :
          S # {} => /\ output.k = "OMIQuotazione"
                    /\ ValuesFrom(S)
                    /\ ShownFrom(S)

\* C1 happens: a three-way match while another municipality has the same
\* zone code with other values.
C1_Witness ==
    /\ Resolved /\ TheComune # <<>> /\ TheProv # <<>>
    /\ InComune(InProv(SameZona, TheProv), TheComune) # {}
    /\ SameZona \ InComune(SameZona, TheComune) # {}
    /\ output.k = "OMIQuotazione"
    /\ output.val_min_mq # None
    /\ Parsed(SameZona, "Compr_min")
          # Parsed(InComune(InProv(SameZona, TheProv), TheComune), "Compr_min")

\* C2 - fallback order: the rows used are the first non-empty tier among
\* {zone, municipality, province}, {zone, province}, {zone, municipality},
\* {zone}; none is returned when all are empty.
C2_FallbackOrder ==
    Resolved =>
       \A S \in {FirstNonEmpty} :
          /\ S = {} => output = None
          /\ (S # {} /\ output.k = "OMIQuotazione") => ValuesFrom(S) /\ ShownFrom(S)
          /\ (S # {} /\ output.k # "OMIQuotazione")
             => /\ output = Raise("AttributeError")
                /\ \/ TableRows[First(S)].Comune_descrizione = NaN
                   \/ TableRows[First(S)].Prov = NaN

\* C2 happens: no three-way match, both the province tier and the municipality
\* tier match, with different values, and the province tier is returned.
C2_Witness ==
    /\ Resolved /\ output.k = "OMIQuotazione"
    /\ Tiers[1] = {} /\ Tiers[2] # {} /\ Tiers[3] # {}
    /\ output.val_min_mq # None
    /\ Parsed(Tiers[2], "Compr_min") \cap Parsed(Tiers[3], "Compr_min") = {}
    /\ Parsed(Tiers[3], "Compr_min") # {}

\* the rows of the zone asked for, residential or not
AnyZona == {i \in 1..Len(TableRows) : \A z \in {TheZona} : IsText(TableRows[i].Zona, z)}

BareZona == Resolved /\ input.comune_kml = None /\ input.provincia_kml = None

\* C3, as claimed - fallback degradation: with a bare zone code, a result
\* that is not none is returned whenever any row of the table has the zone.
C3_AnyRowOfTheZona == (BareZona /\ AnyZona # {}) => output # None

\* C3, amended - with a bare zone code, none is never returned when a
\* residential row has the zone: a valuation is returned, built from the rows
\* of the zone, unless the first of them lacks its municipality or province
\* cell, and then the call raises.
C3_FallbackDegradation ==
    (BareZona /\ SameZona # {})
    => /\ output # None
       /\ \A r \in {TableRows[First(SameZona)]} :
             IF r.Comune_descrizione # NaN /\ r.Prov # NaN
             THEN output.k = "OMIQuotazione" /\ ValuesFrom(SameZona)
             ELSE output = Raise("AttributeError")

\* C3 happens: a bare zone code is answered from rows of two municipalities.
C3_Witness ==
    /\ BareZona
    /\ output.k = "OMIQuotazione"
    /\ \E i, j \in SameZona :
          TableRows[i].Comune_descrizione # TableRows[j].Comune_descrizione

\* val_med is the mean of val_min and val_max
MeanOfExtremes ==
    /\ output.val_med_mq.k = "float"
    /\ FloatAdd(output.val_med_mq, output.val_med_mq)
          = FloatAdd(output.val_min_mq, output.val_max_mq)

\* the documented sample: Compr_min 1000 and 1200, Compr_max 2000 and 2400
SampleRows == fs.valori_csv = CsvFile(TRUE, <<RowPool[2], RowPool[1]>>)

SampleValues ==
    /\ output.val_min_mq = Float(1000, 1)
    /\ output.val_med_mq = Float(1700, 1)
    /\ output.val_max_mq = Float(2400, 1)

\* C4, as claimed - for every non-empty matched row-set val_min is the least
\* Compr_min, val_max the greatest Compr_max and val_med their mean.
C4_EveryMatchedRowSet ==
    (Resolved /\ output.k = "OMIQuotazione")
    => \A S \in {FirstNonEmpty} :
          \A lo \in {Parsed(S, "Compr_min")}, hi \in {Parsed(S, "Compr_max")} :
             /\ lo # {} => output.val_min_mq = Least(lo)
             /\ hi # {} => output.val_max_mq = Greatest(hi)
             /\ (lo # {} /\ hi # {}) => MeanOfExtremes

\* C4, amended - mean of extremes: for every matched row-set in which some
\* Compr_min and some Compr_max parse, val_min is the least parsed Compr_min,
\* val_max the greatest parsed Compr_max, and val_med is (val_min + val_max) / 2;
\* Compr_min 1000, 1200 and Compr_max 2000, 2400 give 1000, 1700, 2400.
C4_MeanOfExtremes ==
    (Resolved /\ output.k = "OMIQuotazione")
    => \A S \in {FirstNonEmpty} :
          \A lo \in {Parsed(S, "Compr_min")}, hi \in {Parsed(S, "Compr_max")} :
             /\ (lo # {} /\ hi # {})
                => /\ output.val_min_mq = Least(lo)
                   /\ output.val_max_mq = Greatest(hi)
                   /\ MeanOfExtremes
             /\ SampleRows => SampleValues

\* C4 happens: the sample rows are matched, the greater Compr_min first.
C4_Witness ==
    /\ Resolved /\ output.k = "OMIQuotazione"
    /\ SampleRows
    /\ SampleValues

(***************************************************************************)
(* Properties of _safe_float (SpecFloat)                                   *)
(***************************************************************************)
\* C5 - numeric parsing: "1.234,56" gives 1234.56 and "45,8" gives 45.8, the
\* empty string and "NA" give null, and a number is returned with its value.
C5_NumericParsing ==
    op = "_safe_float"
    => /\ input = Str(<<"1", ".", "2", "3", "4", ",", "5", "6">>) => output = Float(123456, 100)
       /\ input = Str(<<"4", "5", ",", "8">>) => output = Float(458, 10)
       /\ input \in {Str(<<>>), Str(<<"N", "A">>)} => output = None
       /\ input.k = "int" => output = Float(input.v, 1)
       /\ input.k = "float" => output = input

(***************************************************************************)
(* Properties of _point_in_polygon (SpecPip)                               *)
(***************************************************************************)
\* C8 - boundary robustness: for every ring of at least 3 vertices and every
\* test point, _point_in_polygon returns a boolean and never divides by zero.
C8_BoundaryRobustness ==
    (op = "_point_in_polygon" /\ Len(input.poly) >= 3) => output.k = "bool"

(***************************************************************************)
(* Properties of the zone lookup and of the loaders (Spec)                 *)
(***************************************************************************)
Looked == op = "get_quotazione_omi_da_coordinate"

\* the polygons of the store whose test, with x = lon and y = lat, is True
Hits ==
    { i \in 1..Len(omi_polygons) :
        PointInPolygon(input.lon, input.lat, omi_polygons[i].polygon) = PyBool(TRUE) }

FirstHit == CHOOSE i \in Hits : \A j \in Hits : i <= j

\* C6 - first match in load order: the lookup returns none when the test is
\* True for no polygon of the store, and otherwise resolves the coordinate
\* with the first such polygon of the store, the store being the files in
\* sorted path order and each file's zones in document order.
C6_FirstMatchInLoadOrder ==
    Looked
    => /\ omi_polygons =
            Flatten([i \in 1..Len(SortedSeq(fs.kml)) |->
                        ParseKmlFile(SortedSeq(fs.kml)[i])])
       /\ \A H \in {Hits} :
            IF H = {} THEN output = None /\ poly = 0
            ELSE \A i \in {FirstHit} :
                   /\ poly = i
                   /\ output = GetValoriForZona(omi_polygons[i].zona,
                                                Str(omi_polygons[i].comune),
                                                Str(omi_polygons[i].provincia),
                                                omi_valori_df, omi_zone_df)

\* exact plane geometry of a ring: its edges, its boundary, its interior
EdgesOf(ring) == { <<ring[i], ring[(i % Len(ring)) + 1]>> : i \in 1..Len(ring) }

Between(a, b, c) == (a <= b /\ b <= c) \/ (c <= b /\ b <= a)

OnEdge(x, y, ed) ==
    /\ (ed[2][1] - ed[1][1]) * (y - ed[1][2]) = (ed[2][2] - ed[1][2]) * (x - ed[1][1])
    /\ Between(ed[1][1], x, ed[2][1])
    /\ Between(ed[1][2], y, ed[2][2])

\* the edge crosses the half-line to the right of (x, y)
CrossesRight(x, y, ed) ==
    LET x1 == ed[1][1]
        y1 == ed[1][2]
        x2 == ed[2][1]
        y2 == ed[2][2]
    IN  /\ (y1 > y) # (y2 > y)
        /\ IF y2 > y1 THEN (x - x1) * (y2 - y1) < (x2 - x1) * (y - y1)
                      ELSE (x - x1) * (y2 - y1) > (x2 - x1) * (y - y1)

StrictlyInside(x, y, ring) ==
    /\ \A ed \in EdgesOf(ring) : ~OnEdge(x, y, ed)
    /\ Cardinality({ed \in EdgesOf(ring) : CrossesRight(x, y, ed)}) % 2 = 1

Xs(ring) == {ring[i][1] : i \in 1..Len(ring)}

Ys(ring) == {ring[i][2] : i \in 1..Len(ring)}

\* the rings lie in rectangles that share no interior point
Apart(r, q) ==
    \/ \A a \in Xs(r), b \in Xs(q) : a <= b
    \/ \A a \in Xs(r), b \in Xs(q) : b <= a
    \/ \A a \in Ys(r), b \in Ys(q) : a <= b
    \/ \A a \in Ys(r), b \in Ys(q) : b <= a

NonOverlapping ==
    \A i, j \in 1..Len(omi_polygons) :
        i # j => Apart(omi_polygons[i].polygon, omi_polygons[j].polygon)

Containing ==
    { i \in 1..Len(omi_polygons) :
        StrictlyInside(input.lon, input.lat, omi_polygons[i].polygon) }

\* C7 - containment determinism: with a store of pairwise non-overlapping
\* polygons and a coordinate strictly inside exactly one of them, every
\* lookup resolves that polygon's zone.
C7_ContainmentDeterminism ==
    (Looked /\ NonOverlapping /\ Cardinality(Containing) = 1)
    => /\ poly \in Containing
       /\ output.k # "raise"

Loads == {"warmup_omi_cache", "_load_omi_polygons", "_load_omi_csvs"}

Queries == {"get_quotazione_omi_da_coordinate", "_get_valori_for_zona"}

StoresUnchanged ==
    /\ omi_polygons' = omi_polygons
    /\ omi_valori_df' = omi_valori_df
    /\ omi_zone_df' = omi_zone_df

\* C9 - idempotent load: once the first load has completed, a further call
\* of warmup_omi_cache, _load_omi_polygons or _load_omi_csvs leaves the
\* polygon list and both tables unchanged and reads no file, whatever the
\* first load found.
C9_IdempotentLoad ==
    [][(omi_cache_ready /\ op' \in Loads) => (StoresUnchanged /\ io' = NoIo)]_vars

\* C10 - read-only stores: once warmup_omi_cache has completed, a call of
\* get_quotazione_omi_da_coordinate or of _get_valori_for_zona changes
\* neither the polygon store nor the value table nor the zone table.
C10_ReadOnlyStores ==
    [][(omi_cache_ready /\ op' \in Queries) => StoresUnchanged]_vars

C10_Witness ==
    /\ omi_cache_ready
    /\ op = "_get_valori_for_zona"
    /\ output.k = "OMIQuotazione"
    /\ omi_polygons # <<>>
    /\ \E i \in 1..Len(omi_valori_df.rows) : i \notin Residential

(***************************************************************************)
(* Further properties of _get_valori_for_zona (SpecValori)                 *)
(***************************************************************************)
\* C14 - data unavailable is a value: the call returns none, and does not
\* raise, when the value table is not loaded, when it has no row, and when
\* no row matches the zone code even at the zone-only step.
C14_DataUnavailableIsAValue ==
    (Resolved /\ (omi_valori_df = None \/ TableRows = <<>> \/ SameZona = {}))
    => output = None

\* C14 happens: a loaded table with rows, hints given, and no row of the zone.
C14_Witness ==
    /\ Resolved
    /\ TableRows # <<>>
    /\ SameZona = {}
    /\ TheComune # <<>> /\ TheProv # <<>>
    /\ output = None

\* C15 - the value resolver never raises for malformed table content: it
\* returns a result whatever the cells of the matched rows hold.
C15_NeverRaises == Resolved => output.k # "raise"

HintsGiven == TheComune # <<>> \/ TheProv # <<>>

\* the hints were given and matched no row; the zone alone did
ZoneOnlyTier ==
    /\ HintsGiven
    /\ \A t \in {Tiers} : t[1] = {} /\ t[2] = {} /\ t[3] = {} /\ t[4] # {}

\* what the call returns when asked with the municipality and province of
\* the row it took, which then match at the strictest step
StrictResult ==
    CHOOSE q \in { GetValoriForZona(input.zona, r.Comune_descrizione, r.Prov,
                                    omi_valori_df, omi_zone_df) :
                   r \in {TableRows[First(SameZona)]} } : TRUE

\* C17 - weakest-tier disclosure: a result obtained through the zone-only
\* step says so, hence differs from the result the strictest step gives for
\* the same rows.
C17_WeakestTierDisclosure ==
    (Resolved /\ output.k = "OMIQuotazione" /\ ZoneOnlyTier) => output # StrictResult

ZTableRows == IF omi_zone_df = None THEN <<>> ELSE omi_zone_df.rows

ZIsText(i, col, t) == ZTableRows[i][col].k = "str" /\ Upper(ZTableRows[i][col].s) = t

\* the description rows of the zone asked for
ZSameZona == {i \in 1..Len(ZTableRows) : \A z \in {TheZona} : ZIsText(i, "Zona", z)}

ZInComune(S, c) == {i \in S : ZIsText(i, "Comune_descrizione", c)}

ZInProv(S, p) == {i \in S : ZIsText(i, "Prov", p)}

\* the four steps on the description table
ZTiers ==
    CHOOSE t \in { << (IF c = <<>> THEN S ELSE ZInComune(S, c))
                         \cap (IF p = <<>> THEN S ELSE ZInProv(S, p)),
                      IF p = <<>> THEN {} ELSE ZInProv(S, p),
                      IF c = <<>> THEN {} ELSE ZInComune(S, c),
                      S >> : S \in {ZSameZona}, c \in {TheComune}, p \in {TheProv} } : TRUE

\* the description made from the first row of S, or from the zone code
DescrFrom(S) ==
    IF S = {} THEN <<"Z", "o", "n", "a", " ", "O", "M", "I", " ">> \o TheZona
    ELSE CleanDescr(ZTableRows[First(S)].Zona_Descr)

\* C18, as claimed - the description comes from the first non-empty of the
\* four steps {zone, municipality, province}, {zone, province},
\* {zone, municipality}, {zone}, taken on the description table.
C18_FourTierDescription ==
    (Resolved /\ output.k = "OMIQuotazione")
    => output.zona_descrizione = DescrFrom(FirstOf(ZTiers))

\* C18, amended - the description comes from the description rows that have
\* the zone and every hint given, and when there is none, from the first
\* description row with the zone code; without any it is "Zona OMI <code>".
C18_TwoTierDescription ==
    (Resolved /\ output.k = "OMIQuotazione")
    => \A t \in {ZTiers} :
          output.zona_descrizione = DescrFrom(IF t[1] # {} THEN t[1] ELSE t[4])

\* C18 happens: no description row has zone, municipality and province, one
\* has the zone and the province, and the text of another row is returned.
C18_Witness ==
    /\ Resolved /\ output.k = "OMIQuotazione"
    /\ \A t \in {ZTiers} :
          /\ t[1] = {} /\ t[2] # {}
          /\ output.zona_descrizione = DescrFrom(t[4])
          /\ output.zona_descrizione # DescrFrom(t[2])

(***************************************************************************)
(* Further properties of the loaders (Spec)                                *)
(***************************************************************************)
\* C16 - configuration error is hard: a first load that finds no value
\* table, in the directory or in an archive, fails explicitly.
C16_ConfigurationErrorIsHard ==
    (op = "warmup_omi_cache" /\ fs.valori_csv = NoFile) => output.k = "raise"

\* the .kml files that can be parsed, the archives that can be opened
GoodKml(S) == {path \in S : path \in {1, 2, 3}}

GoodZips(S) == {a \in S : ~Archive(a).bad}

\* the state with the good files alone
GoodOnly == [Cur EXCEPT !.fs.kml = GoodKml(@), !.fs.zips = GoodZips(@)]

\* C20 - failure isolation during load: the polygons stored by a load are
\* those a load stores from the parsable .kml files and the archives that
\* open, the others being left out.
C20_FailureIsolation ==
    [][ /\ op' = "_load_omi_polygons"
           => omi_polygons' = LoadOmiPolygons(GoodOnly).polygons
        /\ op' = "warmup_omi_cache"
           => omi_polygons' = WarmupOmiCache(GoodOnly).polygons ]_vars

(***************************************************************************)
(* Properties of stima_prezzo_zona_nuova_costruzione (SpecStima).  The     *)
(* official estimate is the one made of zona_omi alone, the market         *)
(* estimate the one made of the listings alone; either is available when   *)
(* its central value is not None.                                          *)
(***************************************************************************)
Stimato == op = "stima_prezzo_zona_nuova_costruzione" /\ output.k = "dict"

Livelli == {"prudente", "centrale", "aggressivo"}

\* the listings of a group that enter its statistics
Usable(gruppo) ==
    { i \in 1..Len(input.annunci) :
        /\ input.annunci[i].prezzo.n # 0
        /\ input.annunci[i].mq.n # 0
        /\ classifica_annuncio(input.annunci[i]) = gruppo }

Official == StimaOmi(input.zona_omi)

Market ==
    StimaPortali(calcola_statistiche(PrezziMq(input.annunci, "nuovo")),
                 calcola_statistiche(PrezziMq(input.annunci, "usato"))).stima

OfficialOk == Official.centrale # None

MarketOk == Market.centrale # None

\* (6 a + 4 b) / 10
Blend6040(a, b) == Float(6 * a.n * b.d + 4 * b.n * a.d, 10 * a.d * b.d)

Final == output.stima_nuova_costruzione

\* C11: with an official and a market estimate, each tier of the final
\* estimate is 0.60 of the official tier plus 0.40 of the market tier; with
\* one of the two only, the final estimate is that estimate unchanged.
C11_BlendPolicy ==
    Stimato =>
        /\ (OfficialOk /\ MarketOk)
              => \A t \in Livelli : Final[t] = Blend6040(Official[t], Market[t])
        /\ (OfficialOk /\ ~MarketOk) => Final = Official
        /\ (~OfficialOk /\ MarketOk) => Final = Market

\* an official central value of 3000 and a market central value of 4000
\* were blended into 3400
C11_Witness ==
    /\ Stimato
    /\ Official.centrale = Float(3000, 1)
    /\ Market.centrale = Float(4000, 1)
    /\ Final.centrale = Float(3400, 1)

Generic ==
    [prudente |-> Float(2500, 1), centrale |-> Float(3000, 1),
     aggressivo |-> Float(3500, 1)]

InNote(nota) == \E i \in 1..Len(output.note) : output.note[i] = nota

FallbackNote == Nota("Nessun dato OMI ne portali: stima di fallback generica.")

\* C12, as stated: the generic estimate 2500/3000/3500 is returned exactly
\* when neither an official nor a market estimate is available, and the
\* notes then flag it as a generic fallback.
C12_FallbackExactlyWhen ==
    Stimato =>
        /\ (Final = Generic) <=> (~OfficialOk /\ ~MarketOk)
        /\ (~OfficialOk /\ ~MarketOk) => InNote(FallbackNote)

\* C12, amended: the fallback is taken exactly when neither an official nor
\* a market estimate is available: then the estimate is 2500/3000/3500 and
\* the notes flag it, and with any estimate available the notes do not flag
\* the result, whatever its numbers.
C12_FallbackWhenNoSource ==
    Stimato =>
        /\ (~OfficialOk /\ ~MarketOk) => (Final = Generic /\ InNote(FallbackNote))
        /\ InNote(FallbackNote) => (~OfficialOk /\ ~MarketOk)

\* a zone without values and listings none of which can be used gave the
\* flagged generic estimate
C12_Witness ==
    /\ Stimato
    /\ input.zona_omi # None
    /\ input.annunci # <<>>
    /\ ~OfficialOk /\ ~MarketOk
    /\ Final = Generic
    /\ InNote(FallbackNote)

\* the first note tells that official values entered the estimate
SaysOfficialUsed ==
    output.note[1] \in
        { Nota("Stima combinata: 60% valori OMI + 40% annunci di mercato (Immobiliare.it)."),
          Nota("Stima basata unicamente su valori OMI (nessun dato portali utilizzabile).") }

\* the first note tells that no official values were there
SaysOfficialMissing ==
    output.note[1] \in
        { Nota("Stima basata unicamente su annunci di mercato (Immobiliare.it), OMI non disponibile."),
          FallbackNote }

\* the notes give the number of listings of a group, or say there are none
SaysCount(before, after, none, gruppo) ==
    IF Usable(gruppo) = {}
    THEN InNote(Nota(none)) /\ ~\E i \in 1..Len(output.note) : output.note[i].text = before
    ELSE InNote(NotaN(before, Cardinality(Usable(gruppo)), after)) /\ ~InNote(Nota(none))

KmlParsed == op = "_parse_kml_file"

\* a number: a float that is not NaN
IsNumber(v) == v.k = "float"

ValidVertex(v) == IsNumber(v[1]) /\ IsNumber(v[2])

\* a decimal numeral: digits with at most one point
IsDecimal(b) ==
    /\ \E i \in 1..Len(b) : IsDigit(b[i])
    /\ \A i \in 1..Len(b) : IsDigit(b[i]) \/ b[i] = "."
    /\ Count(b, ".") <= 1

\* a coordinate token lon,lat or lon,lat,alt with decimal longitude and
\* latitude
WellFormed(part) ==
    /\ Len(SplitOn(part, ",")) >= 2
    /\ IsDecimal(SplitOn(part, ",")[1])
    /\ IsDecimal(SplitOn(part, ",")[2])

\* the number of well-formed tokens of a coordinates text
WellFormedCount(coords) ==
    IF coords.k # "str" THEN 0
    ELSE Len(SelectSeq(ReSplit(Strip(coords.s)), WellFormed))

\* a feature with no CODZONA field and no "ZONA OMI <code>" in its name
Uncoded(pm) ==
    /\ \A i \in 1..Len(pm.data) : pm.data[i].name # "CODZONA"
    /\ \/ pm.name.k # "str"
       \/ ~\E i \in 1..Len(pm.name.s) :
              /\ i + 9 <= Len(pm.name.s)
              /\ Upper(SubSeq(pm.name.s, i, i + 8))
                     = <<"Z", "O", "N", "A", " ", "O", "M", "I", " ">>
              /\ IsAlnum(UpperCh(pm.name.s[i + 9]))

\* the coordinates texts of the features that have a zone code, in document
\* order
CodedTexts ==
    Flatten([i \in 1..Len(input.placemarks) |->
                IF HasText(ZonaCode(input.placemarks[i]))
                THEN input.placemarks[i].polygons ELSE <<>>])

AtLeast3(n) == n >= 3

\* C19: every polygon returned has a non-empty zone code and a ring of at
\* least 3 vertices that are pairs of numbers; features with no CODZONA field
\* and no "ZONA OMI <code>" in their name give no polygon; a ring is made of
\* the well-formed tokens of its coordinates, the others being dropped, and
\* is returned only when it has 3 vertices or more.
C19_GeometryStoreInvariant ==
    KmlParsed =>
        /\ \A i \in 1..Len(output) :
              /\ output[i].zona # <<>>
              /\ Len(output[i].polygon) >= 3
              /\ \A j \in 1..Len(output[i].polygon) : ValidVertex(output[i].polygon[j])
        /\ (\A i \in 1..Len(input.placemarks) : Uncoded(input.placemarks[i]))
              => output = <<>>
        /\ [i \in 1..Len(output) |-> Len(output[i].polygon)]
              = SelectSeq([i \in 1..Len(CodedTexts) |-> WellFormedCount(CodedTexts[i])],
                          AtLeast3)

(***************************************************************************)
(* Properties of the filter and of the values of _get_valori_for_zona      *)
(* (SpecValori)                                                            *)
(***************************************************************************)
\* the rows numbered by S, in the order of the table
RowsAt(S) == [n \in 1..Cardinality(S) |-> TableRows[SortedSeq(S)[n]]]

\* the table loaded, without its rows of other categories
ResidentialTable == [omi_valori_df EXCEPT !.rows = RowsAt(Residential)]

\* C21: in a table that has the category column, the rows whose category is
\* not ABITAZIONI CIVILI or ABITAZIONI SIGNORILI (in any letter case) change
\* nothing: the call returns what it returns on the table without them, that
\* is the same values, the same municipality and province, from the same tier.
C21_ResidentialFilter ==
    (Resolved /\ omi_valori_df # None)
    => output = GetValoriForZona(input.zona, input.comune_kml, input.provincia_kml,
                                 ResidentialTable, omi_zone_df)

\* a row of another category has the zone, the municipality and the province
\* asked for and a greater maximum than the one returned
C21_Witness ==
    /\ Resolved
    /\ omi_valori_df # None
    /\ omi_valori_df.tip
    /\ output.k = "OMIQuotazione"
    /\ output.val_max_mq # None
    /\ \E i \in (1..Len(TableRows)) \ Residential :
          /\ IsText(TableRows[i].Zona, TheZona)
          /\ IsText(TableRows[i].Comune_descrizione, TheComune)
          /\ IsText(TableRows[i].Prov, TheProv)
          /\ SafeFloat(TableRows[i].Compr_max).k = "float"
          /\ ~FloatLe(SafeFloat(TableRows[i].Compr_max), output.val_max_mq)

(***************************************************************************)
(* Further properties of stima_prezzo_zona_nuova_costruzione (SpecStima)   *)
(***************************************************************************)
HasNuovo == output.nuovo # EmptyDict

HasUsato == output.usato # EmptyDict

\* a / b of two numbers, times the float v
Times(v, a, b) == Float(v.n * a, v.d * b)

\* the market estimate the claim gives for the statistics of the result
MarketOf(nuovo, usato) ==
    IF nuovo # EmptyDict
    THEN [prudente |-> nuovo.p25, centrale |-> nuovo.mediana, aggressivo |-> nuovo.p75]
    ELSE IF usato # EmptyDict
    THEN [prudente |-> Times(usato.p25, 115, 100),
          centrale |-> Times(usato.mediana, 125, 100),
          aggressivo |-> Times(usato.p75, 135, 100)]
    ELSE NoStima

OfficialOf(z) ==
    IF z = None \/ z.val_med_mq = None THEN NoStima
    ELSE [prudente |-> Times(IF z.val_min_mq = None \/ z.val_min_mq.n = 0
                             THEN z.val_med_mq ELSE z.val_min_mq, 120, 100),
          centrale |-> Times(z.val_med_mq, 125, 100),
          aggressivo |-> Times(IF z.val_max_mq = None \/ z.val_max_mq.n = 0
                               THEN z.val_med_mq ELSE z.val_max_mq, 140, 100)]

\* C23: there is an official estimate exactly when a zone was resolved and its
\* val_med is not null; it is val_min * 1.20, val_med * 1.25, val_max * 1.40,
\* with val_med in the place of a val_min or val_max that is null or zero; and
\* it is the final estimate when there is no market one.
C23_OfficialOnlyEstimate ==
    Stimato =>
        /\ OfficialOk <=> (input.zona_omi # None /\ input.zona_omi.val_med_mq # None)
        /\ Official = OfficialOf(input.zona_omi)
        /\ (OfficialOk /\ ~MarketOk) => Final = OfficialOf(input.zona_omi)

\* a zone whose val_min is zero and no usable listing: the prudent value is
\* val_med * 1.20
C23_Witness ==
    /\ Stimato
    /\ ~MarketOk
    /\ input.zona_omi # None
    /\ input.zona_omi.val_med_mq # None
    /\ input.zona_omi.val_min_mq.n = 0
    /\ Final.prudente = Times(input.zona_omi.val_med_mq, 120, 100)
    /\ Final.centrale = Times(input.zona_omi.val_med_mq, 125, 100)

\* C27: whatever the zone (none, one without values, one with values) and
\* the listings, the three tiers of the estimate returned are not null.
C27_FullyPopulatedEstimate ==
    op = "stima_prezzo_zona_nuova_costruzione"
    => /\ output.k = "dict"
       /\ \A t \in Livelli : Final[t].k = "float"

\* a zone without values and new listings: the three tiers are numbers
C27_Witness ==
    /\ Stimato
    /\ input.zona_omi # None
    /\ input.zona_omi.val_med_mq = None
    /\ HasNuovo
    /\ \A t \in Livelli : Final[t].k = "float"

Zero == Float(0, 1)

Ordered3(a, b, c) == FloatLe(Zero, a) /\ FloatLe(a, b) /\ FloatLe(b, c)

OfficialOrdered ==
    \/ input.zona_omi = None
    \/ input.zona_omi.val_med_mq = None
    \/ Ordered3(input.zona_omi.val_min_mq, input.zona_omi.val_med_mq,
                input.zona_omi.val_max_mq)

StatsOrdered(stat) == stat = EmptyDict \/ Ordered3(stat.p25, stat.mediana, stat.p75)

SpreadOrdered == FloatLe(Zero, SPREAD_NUOVO_MIN) /\ FloatLe(SPREAD_NUOVO_MIN, SPREAD_NUOVO_MAX)

\* C28: when the official values, the statistics of the listings and the two
\* spreads are in order, the estimate is in order, prudente <= centrale <=
\* aggressivo, in every branch.
C28_OrderedEstimate ==
    (Stimato /\ OfficialOrdered /\ StatsOrdered(output.nuovo)
             /\ StatsOrdered(output.usato) /\ SpreadOrdered)
    => FloatLe(Final.prudente, Final.centrale) /\ FloatLe(Final.centrale, Final.aggressivo)

\* a blend of an official estimate made with a zero val_min and of a market
\* estimate made of existing listings, strictly in order
C28_Witness ==
    /\ Stimato /\ OfficialOrdered /\ StatsOrdered(output.nuovo)
    /\ StatsOrdered(output.usato) /\ SpreadOrdered
    /\ OfficialOk /\ MarketOk
    /\ input.zona_omi.val_min_mq.n = 0
    /\ ~HasNuovo
    /\ ~FloatLe(Final.centrale, Final.prudente)
    /\ ~FloatLe(Final.aggressivo, Final.centrale)

(***************************************************************************)
(* Closure of the ring in _point_in_polygon (SpecPip)                      *)
(***************************************************************************)
\* the ring with its first vertex repeated as an extra last vertex
Closed(ring) == Append(ring, ring[1])

\* the edge from the last vertex back to the first crosses the level of y
ClosingEdgeCrosses ==
    (input.poly[Len(input.poly)][2] > input.y) # (input.poly[1][2] > input.y)

\* C24 - implicit ring closure: for every ring of at least 3 vertices and
\* every test point, _point_in_polygon gives the same answer for the ring and
\* for the ring with its first vertex repeated as an extra last vertex.
C24_ImplicitRingClosure ==
    (op = "_point_in_polygon" /\ Len(input.poly) >= 3)
    => output = PointInPolygon(input.x, input.y, Closed(input.poly))

\* C24 happens: a point is found inside a ring of three vertices whose only
\* rising edge is the one from the third vertex back to the first.
C24_Witness ==
    /\ op = "_point_in_polygon"
    /\ Len(input.poly) = 3
    /\ ClosingEdgeCrosses
    /\ input.poly[3][2] < input.poly[1][2]
    /\ input.poly[1][2] > input.poly[2][2]
    /\ output = PyBool(TRUE)

\* the three values of the result
Values == <<output.val_min_mq, output.val_med_mq, output.val_max_mq>>

AllNull == \A n \in 1..3 : Values[n] = None

AllNumbers == \A n \in 1..3 : Values[n].k = "float"

\* the Compr_min and Compr_max cells of the rows S that _safe_float does not parse
Unparsed(S) ==
    { <<i, col>> \in S \X {"Compr_min", "Compr_max"} :
        SafeFloat(TableRows[i][col]).k # "float" }

\* C25 - all-or-nothing nulls: in every result val_min_mq, val_med_mq and
\* val_max_mq are all null or all numbers; they are all null exactly when the
\* matched rows have no parsable Compr_min or no parsable Compr_max; and with
\* several matched rows of which one has one unparsable field none is null.
C25_AllOrNothingNulls ==
    (Resolved /\ output.k = "OMIQuotazione")
    => \A S \in {FirstNonEmpty} :
          /\ AllNull \/ AllNumbers
          /\ AllNull <=> (Parsed(S, "Compr_min") = {} \/ Parsed(S, "Compr_max") = {})
          /\ (Cardinality(S) >= 2 /\ Cardinality(Unparsed(S)) = 1) => AllNumbers

\* C25 happens: two rows are matched, the Compr_max of one of them is not
\* parsable, and the three values are numbers.
C25_Witness ==
    /\ Resolved /\ output.k = "OMIQuotazione"
    /\ Cardinality(FirstNonEmpty) = 2
    /\ Cardinality(Unparsed(FirstNonEmpty)) = 1
    /\ AllNumbers

\* the rows of S in which both Compr_min and Compr_max parse
BothParse(S) ==
    { i \in S : /\ SafeFloat(TableRows[i].Compr_min).k = "float"
                /\ SafeFloat(TableRows[i].Compr_max).k = "float" }

RowsOrdered(S) ==
    \A i \in BothParse(S) :
        FloatLe(SafeFloat(TableRows[i].Compr_min), SafeFloat(TableRows[i].Compr_max))

\* C26 - ordered valuation: whenever the values returned are non-null,
\* val_min_mq <= val_med_mq <= val_max_mq, provided every matched row in which
\* both Compr_min and Compr_max parse has Compr_min <= Compr_max.
C26_OrderedValuation ==
    (Resolved /\ output.k = "OMIQuotazione" /\ AllNumbers)
    => \A S \in {FirstNonEmpty} :
          RowsOrdered(S)
          => /\ FloatLe(output.val_min_mq, output.val_med_mq)
             /\ FloatLe(output.val_med_mq, output.val_max_mq)

(***************************************************************************)
(* The end of the scan of get_quotazione_omi_da_coordinate (Spec)          *)
(***************************************************************************)
\* what the value lookup gives for polygon i of the store
LookupOf(i) ==
    GetValoriForZona(omi_polygons[i].zona, Str(omi_polygons[i].comune),
                     Str(omi_polygons[i].provincia), omi_valori_df, omi_zone_df)

\* the scan gets as far as polygon i: every test before it returns False
Reaches(i) ==
    \A j \in 1..(i - 1) :
        PointInPolygon(input.lon, input.lat, omi_polygons[j].polygon) = PyBool(FALSE)

\* C29 - no second chance after the first containing polygon: a result that
\* is not none has the upper-cased zone code of the first polygon in load
\* order that contains the point; and when the value lookup for that first
\* polygon returns none the query returns none, its scan ending there, also
\* when a later polygon contains the point and has reference values.
C29_NoSecondChance ==
    Looked
    => \A H \in {Hits} :
          /\ output.k = "OMIQuotazione"
             => /\ H # {}
                /\ \A i \in {FirstHit} :
                      poly = i /\ output.zona_codice = Upper(omi_polygons[i].zona)
          /\ H # {}
             => \A i \in {FirstHit} :
                   (Reaches(i) /\ LookupOf(i) = None) => (output = None /\ poly = i)

\* C29 happens: the first polygon containing the point has no reference
\* values, a later polygon containing it has some, and none is returned.
C29_Witness ==
    /\ Looked
    /\ Hits # {}
    /\ Reaches(FirstHit)
    /\ LookupOf(FirstHit) = None
    /\ \E j \in Hits : j > FirstHit /\ LookupOf(j).k = "OMIQuotazione"
    /\ output = None
    /\ poly = FirstHit

(***************************************************************************)
(* Concurrent first use of the caches (SpecThreads)                        *)
(***************************************************************************)
\* the polygon store a single-threaded load of the starting directory leaves
SingleThreaded ==
    WarmupOmiCache([fs |-> input.fs, polygons |-> <<>>, valori |-> None,
                    zone |-> None, ready |-> FALSE, io |-> NoIo]).polygons

AllDone == \A t \in DOMAIN threads : threads[t].pc = "done"

\* C30 - concurrent first use: with two or more threads calling
\* warmup_omi_cache or get_quotazione_omi_da_coordinate before the cache is
\* ready, under every interleaving the polygon store is never anything but
\* empty or the list a single-threaded load produces, it is that list when
\* all the calls have returned, and the list a thread scans is that list.
C30_ConcurrentFirstUse ==
    \A L \in {SingleThreaded} :
        /\ omi_polygons \in {<<>>, L}
        /\ AllDone => omi_polygons = L
        /\ \A t \in DOMAIN threads :
              threads[t].scanned # <<>> => threads[t].scanned = <<L>>

=============================================================================
